---- MODULE Spec2Model ----
(***************************************************************************)
(* Model of the playlist synchronisation engine (playlist_sync/sync.py),   *)
(* its JSON state store (playlist_sync/storage.py) and the way the         *)
(* application hosts it (playlist_sync/app.py).                            *)
(*                                                                         *)
(* Every awaited call of the code (a state-store operation or a connector  *)
(* call) is one atomic action: asyncio tasks interleave only at awaits.    *)
(***************************************************************************)
EXTENDS Integers, Sequences, FiniteSets, TLC

\* ------------------------------------------------------------------ bounds
MaxGroups == 2      \* at most this many create_group calls
MaxTracks == 2      \* longest source playlist

\* ------------------------------------------------------------- data model
\* models.ServiceType
Services == {"spotify", "apple_music", "youtube_music"}

\* JSONStorage._write dumps with sort_keys=True, so the keys of every stored
\* mapping come back from _read in this order.
ServiceOrder == <<"apple_music", "spotify", "youtube_music">>

\* The connectors mapping handed to SyncManager by create_app.
Connectors == {"spotify", "apple_music", "youtube_music"}

\* Python's None (also the default of JSONStorage.get).
None == [none |-> TRUE]

\* The songs of the catalogue, in the order the user adds them.
Titles == <<"Song", "Other", "Third">>

\* A value of an Optional field that is not None.
Some(v) == [some |-> v]

\* models.Track as the connector of `service` holds it.
Track(service, title) ==
    [id |-> service \o ":" \o title, title |-> title, artists |-> <<"Artist">>,
     album |-> Some("Album"), isrc |-> None, duration_ms |-> None]

\* The playlist every service holds, named as the connectors name it.
PlaylistId(service) == <<service, 1>>

\* The empty string as a playlist id.
EmptyId == <<>>

\* The contents a user can give the source playlist.
SourceLists ==
    {[i \in 1..n |-> Track("spotify", Titles[i])] : n \in 0..MaxTracks}

\* SyncManager._tracks_digest: the payload is the list of
\* {id, title, artists, album, isrc} records, in order (duration_ms is not
\* part of the payload).
DigestPayload(tracks) ==
    [i \in 1..Len(tracks) |->
        [id |-> tracks[i].id, title |-> tracks[i].title, artists |-> tracks[i].artists,
         album |-> tracks[i].album, isrc |-> tracks[i].isrc]]

\* json.dumps(payload, sort_keys=True): the text, with the separators ", "
\* and ": " of the default encoder.
JsonString(v) == "\"" \o v \o "\""
JsonNull == "null"

RECURSIVE Join(_)
Join(parts) ==
    IF parts = <<>> THEN ""
    ELSE IF Len(parts) = 1 THEN parts[1]
    ELSE parts[1] \o ", " \o Join(Tail(parts))

DumpsOptional(v) == IF v = None THEN JsonNull ELSE JsonString(v.some)

DumpsStrings(items) ==
    "[" \o Join([i \in 1..Len(items) |-> JsonString(items[i])]) \o "]"

Member(key, text) == JsonString(key) \o ": " \o text

\* DumpsRecord of a payload that leaves out the isrc.
DumpsRecordNoIsrc(d) ==
    "{"
    \o Join(<<Member("album", DumpsOptional(d.album)),
              Member("artists", DumpsStrings(d.artists)),
              Member("id", JsonString(d.id)),
              Member("title", JsonString(d.title))>>)
    \o "}"

\* One record of the payload; sort_keys puts its keys in alphabetical order.
DumpsRecord(d) ==
    "{"
    \o Join(<<Member("album", DumpsOptional(d.album)),
              Member("artists", DumpsStrings(d.artists)),
              Member("id", JsonString(d.id)),
              Member("isrc", DumpsOptional(d.isrc)),
              Member("title", JsonString(d.title))>>)
    \o "}"

Dumps(payload) ==
    "[" \o Join([i \in 1..Len(payload) |-> DumpsRecord(payload[i])]) \o "]"

\* hashlib.sha256(raw).hexdigest(): the hash is collision-free on the texts
\* it is given.
TracksDigest(tracks) == [sha256 |-> Dumps(DigestPayload(tracks))]

\* ------------------------------------------------------------ state store
GroupsKey == <<"sync_groups">>
\* One snapshot key for all groups.
SnapshotKeyShared(group_id) == <<"sync_snapshot", 1>>
SnapshotKey(group_id) == <<"sync_snapshot", group_id>>
GroupIds == 1..MaxGroups
Keys == {GroupsKey} \cup {SnapshotKey(i) : i \in GroupIds}

Absent == [present |-> FALSE]
Present(v) == [present |-> TRUE, value |-> v]

\* JSONStorage.get / set / delete on the contents `d` of the file.
StorageGet(d, key, default) == IF d[key].present THEN d[key].value ELSE default
StorageSet(d, key, value) == [d EXCEPT ![key] = Present(value)]
StorageDelete(d, key) == IF d[key].present THEN [d EXCEPT ![key] = Absent] ELSE d

\* ------------------------------------------------------------- sync group
\* A playlists dict in memory is an insertion-ordered sequence of
\* <<service, playlist id>> pairs with distinct services; in the store it is
\* a JSON object (a function on the services it has).
DictKeys(items) == {items[i][1] : i \in 1..Len(items)}
DictGet(items, key) == items[CHOOSE i \in 1..Len(items) : items[i][1] = key][2]

\* SyncGroup.to_dict: the JSON form of a group.
ToDict(group) ==
    [id |-> group.id, name |-> group.name, primary_service |-> group.primary_service,
     playlists |-> [s \in DictKeys(group.playlists) |-> DictGet(group.playlists, s)]]

\* SyncGroup.from_dict on a stored payload: the playlists come back in the
\* key order of the file.
FromDict(payload) ==
    [id |-> payload.id, name |-> payload.name, primary_service |-> payload.primary_service,
     playlists |->
        LET keys == SelectSeq(ServiceOrder, LAMBDA s : s \in DOMAIN payload.playlists)
        IN  [i \in 1..Len(keys) |-> <<keys[i], payload.playlists[keys[i]]>>]]

\* SyncManager.load_groups / save_groups on the contents `d` of the store.
LoadGroups(d) ==
    LET raw == StorageGet(d, GroupsKey, <<>>)
    IN  [i \in 1..Len(raw) |-> FromDict(raw[i])]

SaveGroups(d, groups) == StorageSet(d, GroupsKey, [i \in 1..Len(groups) |-> ToDict(groups[i])])

\* What the request layer passes to create_group.
GroupInputs ==
    {[name |-> "Mirror", primary_service |-> "spotify",
      playlists |-> <<<<"spotify", PlaylistId("spotify")>>,
                      <<"youtube_music", PlaylistId("youtube_music")>>,
                      <<"apple_music", PlaylistId("apple_music")>>>>]}

\* ------------------------------------------------------------- state.json
\* The keys callers use, in the order sort_keys gives them, and the keys
\* of the mappings they store.
FileKeys == <<"sync_groups", "token">>
MemberKeys == <<"hello", "value">>
FileKeySet == {FileKeys[i] : i \in 1..Len(FileKeys)}

\* Python values handed to set: None, a string, or a dict as the
\* insertion-ordered sequence of its <<key, string>> items.
PyStr(v) == [str |-> v]
PyDict(items) == [dict |-> items]
IsDict(v) == "dict" \in DOMAIN v

StoreValues ==
    {None,
     PyStr("world"),
     PyDict(<<<<"value", "1">>, <<"hello", "world">>>>),
     PyDict(<<<<"hello", "world">>>>)}

StoreDefaults == {None, PyStr("fallback")}

\* Python's == on these values: dicts are equal when their items are,
\* whatever the insertion order.
PyEqual(x, y) ==
    IF IsDict(x) /\ IsDict(y)
    THEN /\ DictKeys(x.dict) = DictKeys(y.dict)
         /\ \A k \in DictKeys(x.dict) : DictGet(x.dict, k) = DictGet(y.dict, k)
    ELSE x = y

\* The items of a dict in the order of `order` (sort_keys=True).
SortItems(items, order) ==
    LET keys == SelectSeq(order, LAMBDA k : k \in DictKeys(items))
    IN  [i \in 1..Len(keys) |-> <<keys[i], DictGet(items, keys[i])>>]

\* json.dumps / json.loads of one value: the text of a value is kept as
\* what it denotes, an object with its members in the order written, a
\* string or null.
DumpsValue(v) ==
    IF IsDict(v) THEN [object |-> SortItems(v.dict, MemberKeys)]
    ELSE IF v = None THEN [null |-> TRUE]
    ELSE [string |-> v.str]

LoadsValue(j) ==
    IF "object" \in DOMAIN j THEN PyDict(j.object)
    ELSE IF "null" \in DOMAIN j THEN None
    ELSE PyStr(j.string)

\* JSONStorage._write / _read: the text of the file is the object with its
\* members in key order; reading it gives a dict in that order.
WriteFile(d) ==
    LET sorted == SortItems(d, FileKeys)
    IN  [i \in 1..Len(sorted) |-> <<sorted[i][1], DumpsValue(sorted[i][2])>>]

ReadFile(text) == [i \in 1..Len(text) |-> <<text[i][1], LoadsValue(text[i][2])>>]

\* DictSet on a dict that is emptied first.
DictSetAlone(items, key, value) == <<<<key, value>>>>

\* data[key] = value and data.pop(key) on a dict.
DictSet(items, key, value) ==
    IF key \in DictKeys(items)
    THEN [i \in 1..Len(items) |-> IF items[i][1] = key THEN <<key, value>> ELSE items[i]]
    ELSE Append(items, <<key, value>>)

DictPop(items, key) == SelectSeq(items, LAMBDA item : item[1] # key)

\* The callers of the store.
StoreClients == {"c1", "c2"}
Free == "free"

IdleClient ==
    [pc |-> "idle", op |-> "none", key |-> "none", value |-> None, default |-> None,
     data |-> <<>>, result |-> None]

\* ------------------------------------------------------------------ state
VARIABLES
    data,          \* JSONStorage: the contents of state.json, by key
    token,         \* token[s]: connector s holds usable tokens (token_ready)
    tracks,        \* tracks[s]: the playlist of service s, as list_tracks returns it
    stop_event,    \* SyncManager._stop_event
    sync_lock,     \* SyncManager._sync_lock is held
    task,          \* the coroutines running run() and run_once(): position and locals
    req,           \* the request handler running create_group
    uuid,          \* number of group identifiers generated so far
    stopAt,        \* history: where the scheduler loop was when stop() was called
    mon,           \* history: whether sweeps follow each other undisturbed
    calc,          \* a call of _tracks_digest or normalized_signature on two arguments, and the results
    file,          \* JSONStorage: the text of state.json
    lock,          \* JSONStorage._lock: the caller that holds it
    client,        \* the callers of JSONStorage.get / set / delete: position and locals
    hist,          \* history: per key, what the last write of a set or delete left
    api,           \* a music service as its web API holds it: search results, playlists, entries
    conn,          \* a connector call (search_track, replace_tracks, ensure_playlist): position and locals
    peer,          \* a second request handler, running create_group next to the first
    connectors     \* SyncManager.connectors: the services that have a connector

vars == <<data, token, tracks, stop_event, sync_lock, task, req, uuid, stopAt, mon,
          calc, file, lock, client, hist, api, conn, peer, connectors>>

\* What the sync engine leaves alone.
aside == <<calc, file, lock, client, hist, api, conn, peer, connectors>>

\* The background task of app._startup and a caller of run_once.
Sched == "sched"
Manual == "manual"
Tasks == {Sched, Manual}

\* Positions inside run_once.
SweepPcs == {"load_groups", "sync_group", "list_tracks", "get_snapshot",
             "sync_target", "search_track", "replace_tracks", "set_snapshot"}

InSweep(t) == task[t].pc \in SweepPcs

NoLocals ==
    [groups |-> <<>>, g |-> 0, source_tracks |-> <<>>, digest |-> None, target |-> 0,
     mapped_tracks |-> <<>>, err |-> "none", ready |-> {}, found |-> <<>>, calls |-> <<>>]

Locals(pc) == [pc |-> pc] @@ NoLocals

Quiet == [solo |-> FALSE, prior |-> FALSE, done |-> FALSE]

\* The request handler between two calls: what is kept is the last call
\* (which operation, on which group) and what it returned.
IdleReq ==
    [pc |-> "idle", op |-> "none", id |-> 0, playlists |-> <<>>, groups |-> <<>>,
     before |-> <<>>, result |-> None]

Returned(r, result) == [IdleReq EXCEPT !.op = r.op, !.id = r.id, !.result = result]

\* No digest call, and the store as JSONStorage.__init__ leaves it: "{}".
NoCalc == [pc |-> "idle", a |-> <<>>, b |-> <<>>, da |-> None, db |-> None]

\* No connector call, and a service that holds nothing.
NoApi == [search |-> <<>>, playlists |-> <<>>, entries |-> <<>>, created |-> 0]
NoCall == [pc |-> "idle", op |-> "none"]

AsideIdle ==
    /\ calc = NoCalc
    /\ file = <<>>
    /\ lock = Free
    /\ client = [c \in StoreClients |-> IdleClient]
    /\ hist = [k \in FileKeySet |-> Absent]
    /\ api = NoApi
    /\ conn = NoCall
    /\ peer = IdleReq

EngineIdle ==
    /\ data = [k \in Keys |-> Absent]
    /\ token = [s \in Services |-> FALSE]
    /\ tracks = [s \in Services |-> <<>>]
    /\ stop_event = FALSE
    /\ sync_lock = FALSE
    /\ task = [t \in Tasks |-> IF t = Sched THEN Locals("check") ELSE Locals("idle")]
    /\ req = IdleReq
    /\ uuid = 0
    /\ stopAt = "never"
    /\ mon = Quiet
    /\ connectors = Connectors

Init == EngineIdle /\ AsideIdle

\* ------------------------------------------------------------- connectors
\* Connector.search_track when it finds the track: the same song as the
\* target service holds it.
SearchHit(service, track) == Track(service, track.title)

\* ------------------------------------------------- locals of one run_once
Group(r) == r.groups[r.g]
Target(r) == Group(r).playlists[r.target]

Ended(pc) == pc \in {"wait", "returned", "raised"}

\* NextGroup in a run_once that reads the list of groups again before each
\* group.
NextGroupReloaded(t, r) ==
    LET fresh == [r EXCEPT !.source_tracks = <<>>, !.digest = None, !.target = 0,
                           !.mapped_tracks = <<>>, !.ready = {}, !.found = <<>>,
                           !.calls = <<>>, !.g = r.g + 1,
                           !.groups = IF r.g = 0 THEN r.groups ELSE LoadGroups(data)]
    IN  IF r.g < Len(fresh.groups)
        THEN [fresh EXCEPT !.pc = "sync_group"]
        ELSE [fresh EXCEPT !.pc = IF t = Sched THEN "wait" ELSE "returned"]

\* NextGroup with a loop that gives up its remaining groups once the stop
\* event is set.
NextGroupUnlessStopped(t, r) ==
    LET fresh == [r EXCEPT !.source_tracks = <<>>, !.digest = None, !.target = 0,
                           !.mapped_tracks = <<>>, !.ready = {}, !.found = <<>>,
                           !.calls = <<>>]
        over == IF t = Sched THEN "wait" ELSE "returned"
    IN  IF r.g < Len(r.groups)
        THEN IF stop_event
             THEN [fresh EXCEPT !.pc = over]
             ELSE [fresh EXCEPT !.pc = "sync_group", !.g = r.g + 1]
        ELSE [fresh EXCEPT !.pc = over, !.g = r.g + 1]

\* run_once: the for loop over groups goes on, or run_once returns (to the
\* wait of run(), or to its caller).
NextGroup(t, r) ==
    LET fresh == [r EXCEPT !.source_tracks = <<>>, !.digest = None, !.target = 0,
                           !.mapped_tracks = <<>>, !.ready = {}, !.found = <<>>,
                           !.calls = <<>>, !.g = r.g + 1]
    IN  IF r.g < Len(r.groups)
        THEN [fresh EXCEPT !.pc = "sync_group"]
        ELSE [fresh EXCEPT !.pc = IF t = Sched THEN "wait" ELSE "returned"]

\* NextTarget that leaves the loop at the first entry without a connector.
NextTargetUntilUnregistered(r) ==
    LET items == Group(r).playlists
        rest == {i \in (r.target + 1)..Len(items) : items[i][1] # Group(r).primary_service}
        first == IF rest = {} THEN 0 ELSE CHOOSE i \in rest : \A j \in rest : i <= j
        cleared == [r EXCEPT !.mapped_tracks = <<>>, !.found = <<>>]
    IN  IF first = 0 \/ items[first][1] \notin connectors
        THEN [cleared EXCEPT !.pc = "set_snapshot", !.target = Len(items) + 1]
        ELSE [cleared EXCEPT !.pc = "sync_target", !.target = first]

\* NextTarget that does not leave out the entry of the primary service.
NextTargetWithPrimary(r) ==
    LET items == Group(r).playlists
        rest == {i \in (r.target + 1)..Len(items) : items[i][1] \in connectors}
        cleared == [r EXCEPT !.mapped_tracks = <<>>, !.found = <<>>]
    IN  IF rest = {}
        THEN [cleared EXCEPT !.pc = "set_snapshot", !.target = Len(items) + 1]
        ELSE [cleared EXCEPT !.pc = "sync_target",
                             !.target = CHOOSE i \in rest : \A j \in rest : i <= j]

\* _sync_targets: the for loop over group.playlists.items() goes on to the
\* next entry that is not the primary service and has a connector (both
\* tests are made without awaiting), or _sync_targets returns.
NextTarget(r) ==
    LET items == Group(r).playlists
        rest == {i \in (r.target + 1)..Len(items) :
                    /\ items[i][1] # Group(r).primary_service
                    /\ items[i][1] \in connectors}
        cleared == [r EXCEPT !.mapped_tracks = <<>>, !.found = <<>>]
    IN  IF rest = {}
        THEN [cleared EXCEPT !.pc = "set_snapshot", !.target = Len(items) + 1]
        ELSE [cleared EXCEPT !.pc = "sync_target",
                             !.target = CHOOSE i \in rest : \A j \in rest : i <= j]

\* History: a sweep starts / something a sweep depends on changes.
StartMon(t) ==
    IF \E u \in Tasks \ {t} : InSweep(u)
    THEN Quiet
    ELSE [solo |-> TRUE, prior |-> mon.done, done |-> FALSE]

\* Task t goes on with locals r; leaving run_once releases the sync lock
\* run() holds around it.
Advance(t, r) ==
    /\ task' = [task EXCEPT ![t] = r]
    /\ sync_lock' = IF t = Sched /\ Ended(r.pc) THEN FALSE ELSE sync_lock
    /\ mon' = IF r.pc = "raised" THEN Quiet
              ELSE IF Ended(r.pc) THEN [Quiet EXCEPT !.done = mon.solo]
              ELSE mon

\* ---------------------------------------------------------- SyncManager.run
\* RunReturn with a loop that goes back to waiting instead of returning.
RunReturnRewait ==
    /\ task[Sched].pc = "check"
    /\ stop_event
    /\ task' = [task EXCEPT ![Sched].pc = "wait"]
    /\ UNCHANGED <<data, token, tracks, stop_event, sync_lock, req, uuid, stopAt, mon, aside>>

\* `while not self._stop_event.is_set()` fails: run() returns.
RunReturn ==
    /\ task[Sched].pc = "check"
    /\ stop_event
    /\ task' = [task EXCEPT ![Sched].pc = "returned"]
    /\ UNCHANGED <<data, token, tracks, stop_event, sync_lock, req, uuid, stopAt, mon, aside>>

\* RunSweep with a loop that does not test the stop event.
RunSweepUnchecked ==
    /\ task[Sched].pc = "check"
    /\ ~sync_lock
    /\ sync_lock' = TRUE
    /\ task' = [task EXCEPT ![Sched] = Locals("load_groups")]
    /\ mon' = StartMon(Sched)
    /\ UNCHANGED <<data, token, tracks, stop_event, req, uuid, stopAt, aside>>

\* The loop condition holds: take the sync lock and enter run_once; the
\* first await is the state-store read of load_groups.
RunSweep ==
    /\ task[Sched].pc = "check"
    /\ ~stop_event
    /\ ~sync_lock
    /\ sync_lock' = TRUE
    /\ task' = [task EXCEPT ![Sched] = Locals("load_groups")]
    /\ mon' = StartMon(Sched)
    /\ UNCHANGED <<data, token, tracks, stop_event, req, uuid, stopAt, aside>>

\* wait_for(self._stop_event.wait(), timeout) ends, by the event or by the
\* timeout; the loop goes back to its condition.
Wake ==
    /\ task[Sched].pc = "wait"
    /\ task' = [task EXCEPT ![Sched].pc = "check"]
    /\ UNCHANGED <<data, token, tracks, stop_event, sync_lock, req, uuid, stopAt, mon, aside>>

\* SyncManager.stop, as app._shutdown calls it.
Stop ==
    /\ ~stop_event
    /\ stop_event' = TRUE
    /\ stopAt' = IF InSweep(Sched) THEN "sweep"
                 ELSE IF task[Sched].pc = "wait" THEN "wait"
                 ELSE "idle"
    /\ UNCHANGED <<data, token, tracks, sync_lock, task, req, uuid, mon, aside>>

\* A caller outside run() awaits run_once().
ManualRunOnce ==
    /\ ~InSweep(Manual)
    /\ task' = [task EXCEPT ![Manual] = Locals("load_groups")]
    /\ mon' = StartMon(Manual)
    /\ UNCHANGED <<data, token, tracks, stop_event, sync_lock, req, uuid, stopAt, aside>>

\* ----------------------------------------------------- SyncManager.run_once
\* groups = await self.load_groups()
LoadGroupsStep(t) ==
    /\ task[t].pc = "load_groups"
    /\ Advance(t, NextGroup(t, [task[t] EXCEPT !.groups = LoadGroups(data), !.g = 0]))
    /\ UNCHANGED <<data, token, tracks, stop_event, req, uuid, stopAt, aside>>

\* `if not source_playlist_id`: the mapping has no entry for the primary
\* service, or the entry is the empty string.
NoSourcePlaylist(group) ==
    \/ group.primary_service \notin DictKeys(group.playlists)
    \/ DictGet(group.playlists, group.primary_service) = EmptyId

\* SyncGroupStep that goes on to list_tracks whatever the mapping holds for
\* the primary service.
SyncGroupStepAnyId(t) ==
    /\ task[t].pc = "sync_group"
    /\ LET r == task[t]
           primary == Group(r).primary_service
       IN  IF primary \notin connectors THEN Advance(t, NextGroup(t, r))
           ELSE IF ~token[primary] THEN Advance(t, NextGroup(t, r))
           ELSE Advance(t, [r EXCEPT !.pc = "list_tracks"])
    /\ UNCHANGED <<data, token, tracks, stop_event, req, uuid, stopAt, aside>>

\* SyncGroupStep without the token_ready() test of the primary connector.
SyncGroupStepNoToken(t) ==
    /\ task[t].pc = "sync_group"
    /\ LET r == task[t]
           primary == Group(r).primary_service
       IN  IF primary \notin connectors THEN Advance(t, NextGroup(t, r))
           ELSE IF NoSourcePlaylist(Group(r)) THEN Advance(t, NextGroup(t, r))
           ELSE Advance(t, [r EXCEPT !.pc = "list_tracks"])
    /\ UNCHANGED <<data, token, tracks, stop_event, req, uuid, stopAt, aside>>

\* _sync_group up to list_tracks: the primary connector, its token_ready()
\* and the source playlist id.
SyncGroupStep(t) ==
    /\ task[t].pc = "sync_group"
    /\ LET r == task[t]
           primary == Group(r).primary_service
       IN  IF primary \notin connectors THEN Advance(t, NextGroup(t, r))
           ELSE IF ~token[primary] THEN Advance(t, NextGroup(t, r))
           ELSE IF NoSourcePlaylist(Group(r)) THEN Advance(t, NextGroup(t, r))
           ELSE Advance(t, [r EXCEPT !.pc = "list_tracks"])
    /\ UNCHANGED <<data, token, tracks, stop_event, req, uuid, stopAt, aside>>

\* source_tracks = await primary_connector.list_tracks(...); digest
ListTracksStep(t) ==
    /\ task[t].pc = "list_tracks"
    /\ LET r == task[t]
           source_tracks == tracks[Group(r).primary_service]
       IN  Advance(t, [r EXCEPT !.pc = "get_snapshot", !.source_tracks = source_tracks,
                                !.digest = TracksDigest(source_tracks)])
    /\ UNCHANGED <<data, token, tracks, stop_event, req, uuid, stopAt, aside>>

\* GetSnapshotStep without the comparison of the digest with the snapshot.
GetSnapshotStepNoCompare(t) ==
    /\ task[t].pc = "get_snapshot"
    /\ Advance(t, NextTarget(task[t]))
    /\ UNCHANGED <<data, token, tracks, stop_event, req, uuid, stopAt, aside>>

\* previous = await self.storage.get(snapshot_key); equal digests end the
\* cycle, otherwise _sync_targets begins.
GetSnapshotStep(t) ==
    /\ task[t].pc = "get_snapshot"
    /\ LET r == task[t]
           previous == StorageGet(data, SnapshotKey(Group(r).id), None)
       IN  IF previous = r.digest
           THEN Advance(t, NextGroup(t, r))
           ELSE Advance(t, NextTarget(r))
    /\ UNCHANGED <<data, token, tracks, stop_event, req, uuid, stopAt, aside>>

\* TargetTokenStep that goes on to the next target without a call when the
\* source list is empty.
TargetTokenStepSkipEmpty(t) ==
    /\ task[t].pc = "sync_target"
    /\ LET r == task[t]
           service == Target(r)[1]
       IN  IF ~token[service] THEN Advance(t, NextTarget(r))
           ELSE IF r.source_tracks = <<>>
                THEN Advance(t, NextTarget([r EXCEPT !.ready = @ \cup {service}]))
                ELSE Advance(t, [r EXCEPT !.pc = "search_track", !.ready = @ \cup {service}])
    /\ UNCHANGED <<data, token, tracks, stop_event, req, uuid, stopAt, aside>>

\* TargetTokenStep that leaves the loop over the targets at the first one
\* whose tokens are not ready.
TargetTokenStepBreak(t) ==
    /\ task[t].pc = "sync_target"
    /\ LET r == task[t]
           service == Target(r)[1]
       IN  IF ~token[service]
           THEN Advance(t, [r EXCEPT !.pc = "set_snapshot",
                                     !.target = Len(Group(r).playlists) + 1])
           ELSE IF r.source_tracks = <<>>
                THEN Advance(t, [r EXCEPT !.pc = "replace_tracks", !.ready = @ \cup {service}])
                ELSE Advance(t, [r EXCEPT !.pc = "search_track", !.ready = @ \cup {service}])
    /\ UNCHANGED <<data, token, tracks, stop_event, req, uuid, stopAt, aside>>

\* if not await connector.token_ready(): continue; an empty source list
\* goes straight to replace_tracks(playlist_id, []).
TargetTokenStep(t) ==
    /\ task[t].pc = "sync_target"
    /\ LET r == task[t]
           service == Target(r)[1]
       IN  IF ~token[service] THEN Advance(t, NextTarget(r))
           ELSE IF r.source_tracks = <<>>
                THEN Advance(t, [r EXCEPT !.pc = "replace_tracks", !.ready = @ \cup {service}])
                ELSE Advance(t, [r EXCEPT !.pc = "search_track", !.ready = @ \cup {service}])
    /\ UNCHANGED <<data, token, tracks, stop_event, req, uuid, stopAt, aside>>

\* Matched with the match put in front of mapped_tracks.
MatchedPrepend(r, matched) ==
    LET found == Append(r.found, matched)
    IN  [r EXCEPT !.found = found,
                  !.mapped_tracks = IF matched # None THEN <<matched>> \o @ ELSE @,
                  !.pc = IF Len(found) = Len(r.source_tracks)
                         THEN "replace_tracks" ELSE "search_track"]

\* The locals after search_track returned `matched` for the next source track.
Matched(r, matched) ==
    LET found == Append(r.found, matched)
    IN  [r EXCEPT !.found = found,
                  !.mapped_tracks = IF matched # None THEN Append(@, matched) ELSE @,
                  !.pc = IF Len(found) = Len(r.source_tracks)
                         THEN "replace_tracks" ELSE "search_track"]

\* matched = await connector.search_track(track)
SearchTrackStep(t) ==
    /\ task[t].pc = "search_track"
    /\ LET r == task[t]
           track == r.source_tracks[Len(r.found) + 1]
       IN  \E matched \in {SearchHit(Target(r)[1], track), None} :
               Advance(t, Matched(r, matched))
    /\ UNCHANGED <<data, token, tracks, stop_event, req, uuid, stopAt, aside>>

\* ReplaceTracksStep that makes no call when nothing matched.
ReplaceTracksStepSkipEmpty(t) ==
    /\ task[t].pc = "replace_tracks"
    /\ LET r == task[t]
           call == [service |-> Target(r)[1], playlist_id |-> Target(r)[2],
                    tracks |-> r.mapped_tracks, found |-> r.found]
       IN  IF r.mapped_tracks = <<>> /\ r.source_tracks # <<>>
           THEN Advance(t, NextTarget(r))
           ELSE Advance(t, NextTarget([r EXCEPT !.calls = Append(@, call)]))
    /\ UNCHANGED <<data, token, tracks, stop_event, req, uuid, stopAt, aside>>

\* await connector.replace_tracks(playlist_id, mapped_tracks).  The mirror
\* playlist is on the service and the engine never reads it back: the call
\* is recorded in calls.
ReplaceTracksStep(t) ==
    /\ task[t].pc = "replace_tracks"
    /\ LET r == task[t]
           call == [service |-> Target(r)[1], playlist_id |-> Target(r)[2],
                    tracks |-> r.mapped_tracks, found |-> r.found]
       IN  Advance(t, NextTarget([r EXCEPT !.calls = Append(@, call)]))
    /\ UNCHANGED <<data, token, tracks, stop_event, req, uuid, stopAt, aside>>

\* SetSnapshotStep that also saves the list of groups the sweep loaded.
SetSnapshotStepSavesGroups(t) ==
    /\ task[t].pc = "set_snapshot"
    /\ data' = SaveGroups(StorageSet(data, SnapshotKey(Group(task[t]).id), task[t].digest),
                          task[t].groups)
    /\ Advance(t, NextGroup(t, task[t]))
    /\ UNCHANGED <<token, tracks, stop_event, req, uuid, stopAt, aside>>

\* SetSnapshotStep that stores the digest of the source playlist as it is
\* at the time of the write.
SetSnapshotStepRefetched(t) ==
    /\ task[t].pc = "set_snapshot"
    /\ data' = StorageSet(data, SnapshotKey(Group(task[t]).id),
                          TracksDigest(tracks[Group(task[t]).primary_service]))
    /\ Advance(t, NextGroup(t, task[t]))
    /\ UNCHANGED <<token, tracks, stop_event, req, uuid, stopAt, aside>>

\* await self.storage.set(snapshot_key, digest)
SetSnapshotStep(t) ==
    /\ task[t].pc = "set_snapshot"
    /\ data' = StorageSet(data, SnapshotKey(Group(task[t]).id), task[t].digest)
    /\ Advance(t, NextGroup(t, task[t]))
    /\ UNCHANGED <<token, tracks, stop_event, req, uuid, stopAt, aside>>

\* A connector call (list_tracks, search_track or replace_tracks) raises.
\* Nothing in _sync_targets, _sync_group, run_once or run catches it: the
\* exception leaves run_once, and run() with it.  What is kept of the
\* locals tells where the sweep was.
ConnectorRaise(t) ==
    /\ task[t].pc \in {"list_tracks", "search_track", "replace_tracks"}
    /\ Advance(t, [task[t] EXCEPT !.pc = "raised", !.err = task[t].pc,
                                  !.source_tracks = <<>>, !.mapped_tracks = <<>>,
                                  !.ready = {}, !.found = <<>>, !.calls = <<>>])
    /\ UNCHANGED <<data, token, tracks, stop_event, req, uuid, stopAt, aside>>

\* ------------------------------------------------------------ environment
\* The user edits the source playlist on the service.
EditSource ==
    /\ \E l \in SourceLists \ {tracks["spotify"]} :
           tracks' = [tracks EXCEPT !["spotify"] = l]
    /\ mon' = Quiet
    /\ UNCHANGED <<data, token, stop_event, sync_lock, task, req, uuid, stopAt, aside>>

\* Connector.oauth_complete stores the tokens of a service.
OAuthComplete ==
    /\ \E s \in Services :
           /\ ~token[s]
           /\ token' = [token EXCEPT ![s] = TRUE]
    /\ mon' = Quiet
    /\ UNCHANGED <<data, tracks, stop_event, sync_lock, task, req, uuid, stopAt, aside>>

\* CreateGroupLoad that puts the new group in front of the list.
CreateGroupLoadPrepend ==
    /\ req.pc = "idle"
    /\ uuid < MaxGroups
    /\ \E input \in GroupInputs :
           LET group == [id |-> uuid + 1, name |-> input.name,
                         primary_service |-> input.primary_service,
                         playlists |-> input.playlists]
               loaded == LoadGroups(data)
           IN  req' = [pc |-> "save", op |-> "create", id |-> group.id,
                       playlists |-> input.playlists, groups |-> <<group>> \o loaded,
                       before |-> loaded, result |-> None]
    /\ uuid' = uuid + 1
    /\ UNCHANGED <<data, token, tracks, stop_event, sync_lock, task, stopAt, mon, aside>>

\* CreateGroupLoad that does not draw a new id: every group gets the same.
CreateGroupLoadSameId ==
    /\ req.pc = "idle"
    /\ uuid < MaxGroups
    /\ \E input \in GroupInputs :
           LET group == [id |-> 1, name |-> input.name,
                         primary_service |-> input.primary_service,
                         playlists |-> input.playlists]
               loaded == LoadGroups(data)
           IN  req' = [pc |-> "save", op |-> "create", id |-> group.id,
                       playlists |-> input.playlists, groups |-> Append(loaded, group),
                       before |-> loaded, result |-> None]
    /\ uuid' = uuid + 1
    /\ UNCHANGED <<data, token, tracks, stop_event, sync_lock, task, stopAt, mon, aside>>

\* SyncManager.create_group up to the end of load_groups.
CreateGroupLoad ==
    /\ req.pc = "idle"
    /\ uuid < MaxGroups
    /\ \E input \in GroupInputs :
           LET group == [id |-> uuid + 1, name |-> input.name,
                         primary_service |-> input.primary_service,
                         playlists |-> input.playlists]
               loaded == LoadGroups(data)
           IN  req' = [pc |-> "save", op |-> "create", id |-> group.id,
                       playlists |-> input.playlists, groups |-> Append(loaded, group),
                       before |-> loaded, result |-> None]
    /\ uuid' = uuid + 1
    /\ UNCHANGED <<data, token, tracks, stop_event, sync_lock, task, stopAt, mon, aside>>

\* create_group: await self.save_groups(groups); return group
CreateGroupSave ==
    /\ req.pc = "save"
    /\ req.op = "create"
    /\ data' = SaveGroups(data, req.groups)
    /\ req' = Returned(req, CHOOSE group \in {req.groups[i] : i \in 1..Len(req.groups)} :
                                group.id = req.id)
    /\ mon' = Quiet
    /\ UNCHANGED <<token, tracks, stop_event, sync_lock, task, uuid, stopAt, aside>>

\* The position of the first group of the list with this id, or 0.
IndexOf(groups, group_id) ==
    LET found == {i \in 1..Len(groups) : groups[i].id = group_id}
    IN  IF found = {} THEN 0 ELSE CHOOSE i \in found : \A j \in found : i <= j

\* What the request layer passes to update_group: a mapping that names
\* another YouTube Music playlist and no Apple Music one.
UpdateInputs ==
    {<<<<"youtube_music", <<"youtube_music", 2>>>>, <<"spotify", PlaylistId("spotify")>>>>}

\* UpdateGroupLoad that adds the new entries to the mapping the group has.
UpdateGroupLoadMerge ==
    /\ req.pc = "idle"
    /\ \E group_id \in GroupIds, playlists \in UpdateInputs :
           LET groups == LoadGroups(data)
               idx == IndexOf(groups, group_id)
               call == [IdleReq EXCEPT !.op = "update", !.id = group_id]
               kept == SelectSeq(groups[idx].playlists,
                                 LAMBDA item : item[1] \notin DictKeys(playlists))
           IN  IF idx = 0
               THEN req' = Returned(call, None)
               ELSE req' = [call EXCEPT !.pc = "save", !.playlists = playlists,
                                        !.groups = [groups EXCEPT ![idx].playlists =
                                                                      kept \o playlists],
                                        !.before = groups]
    /\ UNCHANGED <<data, token, tracks, stop_event, sync_lock, task, uuid, stopAt, mon, aside>>

\* SyncManager.update_group up to the end of load_groups and the search of
\* the list: the group is found and given the new mapping, or the call
\* returns None.
UpdateGroupLoad ==
    /\ req.pc = "idle"
    /\ \E group_id \in GroupIds, playlists \in UpdateInputs :
           LET groups == LoadGroups(data)
               idx == IndexOf(groups, group_id)
               call == [IdleReq EXCEPT !.op = "update", !.id = group_id]
           IN  IF idx = 0
               THEN req' = Returned(call, None)
               ELSE req' = [call EXCEPT !.pc = "save", !.playlists = playlists,
                                        !.groups = [groups EXCEPT ![idx].playlists = playlists],
                                        !.before = groups]
    /\ UNCHANGED <<data, token, tracks, stop_event, sync_lock, task, uuid, stopAt, mon, aside>>

\* UpdateGroupSave that also drops the snapshot of the group, so that the
\* next sweep writes the new mapping.
UpdateGroupSaveResetsSnapshot ==
    /\ req.pc = "save"
    /\ req.op = "update"
    /\ data' = StorageDelete(SaveGroups(data, req.groups), SnapshotKey(req.id))
    /\ req' = Returned(req, req.groups[IndexOf(req.groups, req.id)])
    /\ mon' = Quiet
    /\ UNCHANGED <<token, tracks, stop_event, sync_lock, task, uuid, stopAt, aside>>

\* update_group: await self.save_groups(groups); return group
UpdateGroupSave ==
    /\ req.pc = "save"
    /\ req.op = "update"
    /\ data' = SaveGroups(data, req.groups)
    /\ req' = Returned(req, req.groups[IndexOf(req.groups, req.id)])
    /\ mon' = Quiet
    /\ UNCHANGED <<token, tracks, stop_event, sync_lock, task, uuid, stopAt, aside>>

\* api_update_group: the status of the response.
ApiUpdateStatus(updated) == IF updated = None THEN 404 ELSE 200

\* SyncManager.delete_group up to the end of load_groups.
DeleteGroupLoad ==
    /\ req.pc = "idle"
    /\ \E group_id \in GroupIds :
           LET loaded == LoadGroups(data)
           IN  req' = [IdleReq EXCEPT !.pc = "save", !.op = "delete", !.id = group_id,
                                      !.groups = SelectSeq(loaded,
                                                           LAMBDA group : group.id # group_id),
                                      !.before = loaded]
    /\ UNCHANGED <<data, token, tracks, stop_event, sync_lock, task, uuid, stopAt, mon, aside>>

\* delete_group: await self.save_groups(groups)
DeleteGroupSave ==
    /\ req.pc = "save"
    /\ req.op = "delete"
    /\ data' = SaveGroups(data, req.groups)
    /\ req' = [req EXCEPT !.pc = "delete_snapshot", !.groups = <<>>]
    /\ mon' = Quiet
    /\ UNCHANGED <<token, tracks, stop_event, sync_lock, task, uuid, stopAt, aside>>

\* DeleteGroupSnapshot that leaves the snapshot in the store.
DeleteGroupSnapshotKept ==
    /\ req.pc = "delete_snapshot"
    /\ req' = Returned(req, None)
    /\ mon' = Quiet
    /\ UNCHANGED <<data, token, tracks, stop_event, sync_lock, task, uuid, stopAt, aside>>

\* delete_group: await self.storage.delete(f"sync_snapshot::{group_id}")
DeleteGroupSnapshot ==
    /\ req.pc = "delete_snapshot"
    /\ data' = StorageDelete(data, SnapshotKey(req.id))
    /\ req' = Returned(req, None)
    /\ mon' = Quiet
    /\ UNCHANGED <<token, tracks, stop_event, sync_lock, task, uuid, stopAt, aside>>

\* ---------------------------------------------------------- specification
SweepStep(t) ==
    \/ LoadGroupsStep(t)
    \/ SyncGroupStep(t)
    \/ ListTracksStep(t)
    \/ GetSnapshotStep(t)
    \/ TargetTokenStep(t)
    \/ SearchTrackStep(t)
    \/ ReplaceTracksStep(t)
    \/ SetSnapshotStep(t)
    \/ ConnectorRaise(t)

SchedStep == RunReturn \/ RunSweep \/ Wake \/ SweepStep(Sched)

Next ==
    \/ RunReturn
    \/ RunSweep
    \/ Wake
    \/ Stop
    \/ SweepStep(Sched)
    \/ EditSource
    \/ OAuthComplete
    \/ CreateGroupLoad
    \/ CreateGroupSave

Spec == Init /\ [][Next]_vars

\* The application starts on a state.json that an earlier run has left:
\* the services are linked and a group with one mirror is stored.
InitLinked ==
    /\ data = SaveGroups([k \in Keys |-> Absent],
                         <<[id |-> 1, name |-> "Mirror", primary_service |-> "spotify",
                            playlists |-> <<<<"spotify", PlaylistId("spotify")>>,
                                            <<"apple_music", PlaylistId("apple_music")>>>>]>>)
    /\ token = [s \in Services |-> TRUE]
    /\ tracks = [s \in Services |-> <<>>]
    /\ stop_event = FALSE
    /\ sync_lock = FALSE
    /\ task = [t \in Tasks |-> IF t = Sched THEN Locals("check") ELSE Locals("idle")]
    /\ req = IdleReq
    /\ uuid = 1
    /\ stopAt = "never"
    /\ mon = Quiet
    /\ connectors = Connectors
    /\ AsideIdle

NextManual ==
    \/ RunReturn
    \/ RunSweep
    \/ Wake
    \/ Stop
    \/ ManualRunOnce
    \/ \E t \in Tasks : SweepStep(t)
    \/ EditSource

\* A caller of run_once next to the background task.
SpecManual == InitLinked /\ [][NextManual]_vars

NextLoop ==
    \/ RunReturn
    \/ RunSweep
    \/ Wake
    \/ Stop
    \/ SweepStep(Sched)
    \/ EditSource

\* The background task on its own.  The event loop keeps running it, and
\* the connector and state-store calls it awaits come back.
SpecLoop == InitLinked /\ [][NextLoop]_vars /\ WF_vars(SchedStep)

\* The services are linked and the source playlist holds a track; the
\* registry is empty.
InitGroups ==
    /\ data = [k \in Keys |-> Absent]
    /\ token = [s \in Services |-> TRUE]
    /\ tracks = [s \in Services |-> IF s = "spotify" THEN <<Track(s, Titles[1])>> ELSE <<>>]
    /\ stop_event = FALSE
    /\ sync_lock = FALSE
    /\ task = [t \in Tasks |-> IF t = Sched THEN Locals("check") ELSE Locals("idle")]
    /\ req = IdleReq
    /\ uuid = 0
    /\ stopAt = "never"
    /\ mon = Quiet
    /\ connectors = Connectors
    /\ AsideIdle

NextGroups ==
    \/ RunSweep
    \/ Wake
    \/ SweepStep(Sched)
    \/ CreateGroupLoad
    \/ CreateGroupSave
    \/ UpdateGroupLoad
    \/ UpdateGroupSave
    \/ DeleteGroupLoad
    \/ DeleteGroupSave
    \/ DeleteGroupSnapshot

\* A request handler that creates, updates and deletes groups next to the
\* background task.
SpecGroups == InitGroups /\ [][NextGroups]_vars

\* A stored group with one mirror; the source playlist holds a track and
\* only the primary service is linked so far.
InitMirror ==
    /\ data = SaveGroups([k \in Keys |-> Absent],
                         <<[id |-> 1, name |-> "Mirror", primary_service |-> "spotify",
                            playlists |-> <<<<"spotify", PlaylistId("spotify")>>,
                                            <<"apple_music", PlaylistId("apple_music")>>>>]>>)
    /\ token = [s \in Services |-> s = "spotify"]
    /\ tracks = [s \in Services |-> IF s = "spotify" THEN <<Track(s, Titles[1])>> ELSE <<>>]
    /\ stop_event = FALSE
    /\ sync_lock = FALSE
    /\ task = [t \in Tasks |-> IF t = Sched THEN Locals("check") ELSE Locals("idle")]
    /\ req = IdleReq
    /\ uuid = 1
    /\ stopAt = "never"
    /\ mon = Quiet
    /\ connectors = Connectors
    /\ AsideIdle

NextMirror ==
    \/ RunSweep
    \/ Wake
    \/ SweepStep(Sched)
    \/ OAuthComplete
    \/ UpdateGroupLoad
    \/ UpdateGroupSave

\* The background task sweeping again and again while the other services
\* get linked and the mapping of the group is edited; the source playlist
\* stays as it is.  The event loop keeps running the task.
SpecMirror == InitMirror /\ [][NextMirror]_vars /\ WF_vars(SchedStep)

\* The mappings of the stored groups: all three services, no entry for the
\* primary service, and an empty playlist id for it.
PartialMappings ==
    {<<<<"spotify", PlaylistId("spotify")>>, <<"youtube_music", PlaylistId("youtube_music")>>,
       <<"apple_music", PlaylistId("apple_music")>>>>,
     <<<<"apple_music", PlaylistId("apple_music")>>>>,
     <<<<"spotify", EmptyId>>, <<"apple_music", PlaylistId("apple_music")>>>>}

\* A SyncManager built with the connectors of two services only, on a
\* state.json that holds two groups; the services are linked.
InitPartial ==
    /\ \E first \in PartialMappings, second \in PartialMappings :
           data = SaveGroups([k \in Keys |-> Absent],
                             <<[id |-> 1, name |-> "Mirror", primary_service |-> "spotify",
                                playlists |-> first],
                               [id |-> 2, name |-> "Mirror", primary_service |-> "spotify",
                                playlists |-> second]>>)
    /\ \E service \in Services : connectors = Connectors \ {service}
    /\ token = [s \in Services |-> TRUE]
    /\ tracks = [s \in Services |-> IF s = "spotify" THEN <<Track(s, Titles[1])>> ELSE <<>>]
    /\ stop_event = FALSE
    /\ sync_lock = FALSE
    /\ task = [t \in Tasks |-> IF t = Sched THEN Locals("check") ELSE Locals("idle")]
    /\ req = IdleReq
    /\ uuid = 2
    /\ stopAt = "never"
    /\ mon = Quiet
    /\ AsideIdle

NextPartial ==
    \/ RunSweep
    \/ Wake
    \/ SweepStep(Sched)
    \/ EditSource

\* The background task of a manager that lacks a connector.
SpecPartial == InitPartial /\ [][NextPartial]_vars

\* ------------------------------------------------- two source playlists
\* A state.json with two groups that mirror different source playlists:
\* the first a Spotify playlist, the second an Apple Music playlist, each
\* into a YouTube Music playlist of its own.  All services are linked.
InitIsolated ==
    /\ data = SaveGroups([k \in Keys |-> Absent],
                         <<[id |-> 1, name |-> "Mirror", primary_service |-> "spotify",
                            playlists |-> <<<<"spotify", PlaylistId("spotify")>>,
                                            <<"youtube_music", PlaylistId("youtube_music")>>>>],
                           [id |-> 2, name |-> "Mirror", primary_service |-> "apple_music",
                            playlists |-> <<<<"apple_music", PlaylistId("apple_music")>>,
                                            <<"youtube_music", <<"youtube_music", 2>>>>>>]>>)
    /\ connectors = Connectors
    /\ token = [s \in Services |-> TRUE]
    /\ tracks = [s \in Services |-> IF s = "youtube_music" THEN <<>>
                                     ELSE <<Track(s, Titles[1])>>]
    /\ stop_event = FALSE
    /\ sync_lock = FALSE
    /\ task = [t \in Tasks |-> IF t = Sched THEN Locals("check") ELSE Locals("idle")]
    /\ req = IdleReq
    /\ uuid = 2
    /\ stopAt = "never"
    /\ mon = Quiet
    /\ AsideIdle

NextIsolated ==
    \/ RunSweep
    \/ Wake
    \/ SweepStep(Sched)
    \/ EditSource

\* The background task over two groups while the user edits the Spotify
\* playlist.
SpecIsolated == InitIsolated /\ [][NextIsolated]_vars

\* ------------------------------------------------------ run() called again
\* RunAgain on a manager whose run() resets the stop event when it starts.
RunAgainCleared ==
    /\ task[Sched].pc \in {"returned", "raised"}
    /\ task' = [task EXCEPT ![Sched] = Locals("check")]
    /\ stop_event' = FALSE
    /\ UNCHANGED <<data, token, tracks, sync_lock, req, uuid, stopAt, mon, aside>>

\* run() has returned, or a connector exception has ended it, and run() is
\* called once more on the same SyncManager: a new frame at the loop
\* condition.  Nothing in run() touches the stop event.
RunAgain ==
    /\ task[Sched].pc \in {"returned", "raised"}
    /\ task' = [task EXCEPT ![Sched] = Locals("check")]
    /\ UNCHANGED <<data, token, tracks, stop_event, sync_lock, req, uuid, stopAt, mon, aside>>

NextRestart ==
    \/ RunReturn
    \/ RunSweep
    \/ Wake
    \/ Stop
    \/ SweepStep(Sched)
    \/ EditSource
    \/ RunAgain

\* The background task, stopped and started again.
SpecRestart == InitLinked /\ [][NextRestart]_vars

\* --------------------------------------------------- a second handler
\* api_create_group of another request: create_group up to the end of
\* load_groups.
PeerCreateLoad ==
    /\ peer.pc = "idle"
    /\ uuid < MaxGroups
    /\ \E input \in GroupInputs :
           LET group == [id |-> uuid + 1, name |-> input.name,
                         primary_service |-> input.primary_service,
                         playlists |-> input.playlists]
               loaded == LoadGroups(data)
           IN  peer' = [pc |-> "save", op |-> "create", id |-> group.id,
                        playlists |-> input.playlists, groups |-> Append(loaded, group),
                        before |-> loaded, result |-> None]
    /\ uuid' = uuid + 1
    /\ UNCHANGED <<data, token, tracks, stop_event, sync_lock, task, req, stopAt, mon,
                   connectors, calc, file, lock, client, hist, api, conn>>

\* create_group of the other request: await self.save_groups(groups);
\* return group
PeerCreateSave ==
    /\ peer.pc = "save"
    /\ data' = SaveGroups(data, peer.groups)
    /\ peer' = Returned(peer, peer.groups[Len(peer.groups)])
    /\ UNCHANGED <<token, tracks, stop_event, sync_lock, task, req, uuid, stopAt, mon,
                   connectors, calc, file, lock, client, hist, api, conn>>

NextRequests ==
    \/ CreateGroupLoad
    \/ CreateGroupSave
    \/ UpdateGroupLoad
    \/ UpdateGroupSave
    \/ DeleteGroupLoad
    \/ DeleteGroupSave
    \/ DeleteGroupSnapshot
    \/ PeerCreateLoad
    \/ PeerCreateSave

\* Two request handlers of the web server at a time: each runs up to its
\* next await and the event loop may then go on with the other.
SpecRequests == InitGroups /\ [][NextRequests]_vars

\* ------------------------------------------------------- _tracks_digest
\* Tracks that differ from the first one in a single field each.
DigestTrack ==
    [id |-> "t1", title |-> "Song", artists |-> <<"Artist">>, album |-> Some("Album"),
     isrc |-> None, duration_ms |-> None]

DigestTracks ==
    {DigestTrack,
     [DigestTrack EXCEPT !.id = "t2"],
     [DigestTrack EXCEPT !.title = "Other"],
     [DigestTrack EXCEPT !.artists = <<>>],
     [DigestTrack EXCEPT !.artists = <<"Artist", "Other">>],
     [DigestTrack EXCEPT !.album = None],
     [DigestTrack EXCEPT !.isrc = Some("ISRC")],
     [DigestTrack EXCEPT !.duration_ms = Some(1)]}

DigestLists == UNION {[1..n -> DigestTracks] : n \in 0..MaxTracks}

\* Two track lists are about to be digested.
InitDigest ==
    /\ EngineIdle
    /\ \E a \in DigestLists, b \in DigestLists :
           calc = [pc |-> "args", a |-> a, b |-> b, da |-> None, db |-> None]
    /\ file = <<>>
    /\ lock = Free
    /\ client = [c \in StoreClients |-> IdleClient]
    /\ hist = [k \in FileKeySet |-> Absent]
    /\ api = NoApi
    /\ conn = NoCall
    /\ peer = IdleReq

\* digest = self._tracks_digest(source_tracks), for both lists.
TracksDigestCall ==
    /\ calc.pc = "args"
    /\ calc' = [calc EXCEPT !.pc = "done", !.da = TracksDigest(calc.a),
                            !.db = TracksDigest(calc.b)]
    /\ UNCHANGED <<data, token, tracks, stop_event, sync_lock, task, req, uuid, stopAt, mon,
                   connectors, peer, api, conn, file, lock, client, hist>>

NextDigest == TracksDigestCall

SpecDigest == InitDigest /\ [][NextDigest]_vars

\* ------------------------------------------------------------ JSONStorage
\* A caller awaits get(key, default), set(key, value) or delete(key): the
\* first await is the acquisition of the lock.
StoreCall(c) ==
    /\ client[c].pc = "idle"
    /\ \E key \in FileKeySet :
           \/ \E default \in StoreDefaults :
                  client' = [client EXCEPT ![c] =
                                [IdleClient EXCEPT !.pc = "acquire", !.op = "get",
                                                   !.key = key, !.default = default]]
           \/ \E value \in StoreValues :
                  client' = [client EXCEPT ![c] =
                                [IdleClient EXCEPT !.pc = "acquire", !.op = "set",
                                                   !.key = key, !.value = value]]
           \/ client' = [client EXCEPT ![c] =
                            [IdleClient EXCEPT !.pc = "acquire", !.op = "delete", !.key = key]]
    /\ UNCHANGED <<data, token, tracks, stop_event, sync_lock, task, req, uuid, stopAt, mon,
                   connectors, peer, api, conn, calc, file, lock, hist>>

\* StoreAcquire on a lock that lets every caller in.
StoreAcquireUnlocked(c) ==
    /\ client[c].pc = "acquire"
    /\ lock' = c
    /\ client' = [client EXCEPT ![c].pc = "read"]
    /\ UNCHANGED <<data, token, tracks, stop_event, sync_lock, task, req, uuid, stopAt, mon,
                   connectors, peer, api, conn, calc, file, hist>>

\* async with self._lock: the caller gets the lock once it is free.
StoreAcquire(c) ==
    /\ client[c].pc = "acquire"
    /\ lock = Free
    /\ lock' = c
    /\ client' = [client EXCEPT ![c].pc = "read"]
    /\ UNCHANGED <<data, token, tracks, stop_event, sync_lock, task, req, uuid, stopAt, mon,
                   connectors, peer, api, conn, calc, file, hist>>

\* The caller is done: it keeps what the call returned and gives the lock
\* back.
StoreReturn(c, result) ==
    /\ client' = [client EXCEPT ![c] = [@ EXCEPT !.pc = "idle", !.value = None,
                                                 !.default = None, !.data = <<>>,
                                                 !.result = result]]
    /\ lock' = Free

\* StoreRead whose delete writes the file back with the key left in.
StoreReadDeleteKeeps(c) ==
    /\ client[c].pc = "read"
    /\ LET r == client[c]
           d == ReadFile(file)
       IN  CASE r.op = "get" ->
                   StoreReturn(c, IF r.key \in DictKeys(d) THEN DictGet(d, r.key)
                                  ELSE r.default)
             [] r.op = "set" ->
                   /\ client' = [client EXCEPT ![c].pc = "write",
                                               ![c].data = DictSet(d, r.key, r.value)]
                   /\ lock' = lock
             [] r.op = "delete" ->
                   IF r.key \in DictKeys(d)
                   THEN /\ client' = [client EXCEPT ![c].pc = "write", ![c].data = d]
                        /\ lock' = lock
                   ELSE StoreReturn(c, None)
    /\ UNCHANGED <<data, token, tracks, stop_event, sync_lock, task, req, uuid, stopAt, mon,
                   connectors, peer, api, conn, calc, file, hist>>

\* data = await self._read() and what follows it without an await: get
\* returns data.get(key, default); set puts the value in the dict; delete
\* pops the key if it is there and returns otherwise.
StoreRead(c) ==
    /\ client[c].pc = "read"
    /\ LET r == client[c]
           d == ReadFile(file)
       IN  CASE r.op = "get" ->
                   StoreReturn(c, IF r.key \in DictKeys(d) THEN DictGet(d, r.key)
                                  ELSE r.default)
             [] r.op = "set" ->
                   /\ client' = [client EXCEPT ![c].pc = "write",
                                               ![c].data = DictSet(d, r.key, r.value)]
                   /\ lock' = lock
             [] r.op = "delete" ->
                   IF r.key \in DictKeys(d)
                   THEN /\ client' = [client EXCEPT ![c].pc = "write",
                                                    ![c].data = DictPop(d, r.key)]
                        /\ lock' = lock
                   ELSE StoreReturn(c, None)
    /\ UNCHANGED <<data, token, tracks, stop_event, sync_lock, task, req, uuid, stopAt, mon,
                   connectors, peer, api, conn, calc, file, hist>>

\* await self._write(data), the end of set and of delete.
StoreWrite(c) ==
    /\ client[c].pc = "write"
    /\ file' = WriteFile(client[c].data)
    /\ hist' = [hist EXCEPT ![client[c].key] =
                    IF client[c].op = "set" THEN Present(client[c].value) ELSE Absent]
    /\ StoreReturn(c, None)
    /\ UNCHANGED <<data, token, tracks, stop_event, sync_lock, task, req, uuid, stopAt, mon,
                   connectors, peer, api, conn, calc>>

NextStore ==
    \E c \in StoreClients :
        \/ StoreCall(c)
        \/ StoreAcquire(c)
        \/ StoreRead(c)
        \/ StoreWrite(c)

\* Callers of the state store running concurrently.
SpecStore == Init /\ [][NextStore]_vars

\* --------------------------------------------- Track.normalized_signature
\* Titles, artist names and album names letter by letter, so that str.lower
\* has something to do.
LowerChar(c) ==
    CASE c = "S" -> "s"
      [] c = "A" -> "a"
      [] c = "B" -> "b"
      [] OTHER -> c

\* str.lower
Lower(text) == [i \in 1..Len(text) |-> LowerChar(text[i])]

\* " ".join(names)
RECURSIVE SpaceJoin(_)
SpaceJoin(names) ==
    IF names = <<>> THEN <<>>
    ELSE IF Len(names) = 1 THEN names[1]
    ELSE names[1] \o <<" ">> \o SpaceJoin(Tail(names))

\* `self.album or ""`: None and the empty string both give "".
AlbumOrEmpty(album) == IF album = None THEN <<>> ELSE album.some

\* NormalizedSignature that keeps the letter case of the album.
NormalizedSignatureAlbumCase(track) ==
    Lower(track.title) \o <<"|">> \o Lower(SpaceJoin(track.artists)) \o <<"|">>
        \o AlbumOrEmpty(track.album)

\* f"{self.title.lower()}|{artists}|{album}"
NormalizedSignature(track) ==
    Lower(track.title) \o <<"|">> \o Lower(SpaceJoin(track.artists)) \o <<"|">>
        \o Lower(AlbumOrEmpty(track.album))

SigTitles == {<<"S">>, <<"s">>, <<"b">>}
SigArtists == {<<>>, <<<<"A">>>>, <<<<"a">>>>, <<<<"a">>, <<"b">>>>, <<<<"a", " ", "b">>>>}
SigAlbums == {None, Some(<<>>), Some(<<"B">>), Some(<<"b">>)}

\* What the signature does not read: id, isrc and duration_ms.
SigRest ==
    {[id |-> "t1", isrc |-> None, duration_ms |-> None],
     [id |-> "t2", isrc |-> None, duration_ms |-> None],
     [id |-> "t1", isrc |-> Some("ISRC"), duration_ms |-> Some(1)]}

SigTracks ==
    {[id |-> rest.id, title |-> title, artists |-> artists, album |-> album,
      isrc |-> rest.isrc, duration_ms |-> rest.duration_ms] :
        title \in SigTitles, artists \in SigArtists, album \in SigAlbums, rest \in SigRest}

\* Two tracks whose signatures are about to be taken.
InitSignature ==
    /\ EngineIdle
    /\ \E a \in SigTracks, b \in SigTracks :
           calc = [pc |-> "tracks", a |-> a, b |-> b, da |-> None, db |-> None]
    /\ file = <<>>
    /\ lock = Free
    /\ client = [c \in StoreClients |-> IdleClient]
    /\ hist = [k \in FileKeySet |-> Absent]
    /\ api = NoApi
    /\ conn = NoCall
    /\ peer = IdleReq

\* track.normalized_signature(), for both tracks.
SignatureCall ==
    /\ calc.pc = "tracks"
    /\ calc' = [calc EXCEPT !.pc = "signed", !.da = NormalizedSignature(calc.a),
                            !.db = NormalizedSignature(calc.b)]
    /\ UNCHANGED <<data, token, tracks, stop_event, sync_lock, task, req, uuid, stopAt, mon,
                   connectors, peer, api, conn, file, lock, client, hist>>

NextSignature == SignatureCall

SpecSignature == InitSignature /\ [][NextSignature]_vars

\* ------------------------------------------------- Connector.search_track
MaxResults == 2

\* The track a connector is asked to find: a song of another service.
SearchQueries ==
    {[id |-> "s1", title |-> <<"S">>, artists |-> artists, album |-> album,
      isrc |-> None, duration_ms |-> None] :
        artists \in {<<>>, <<<<"a">>>>}, album \in {None, Some(<<"b">>)}}

\* The items of a search response, as each service's API gives them.
SpotifyItems ==
    {[id |-> id, name |-> name, artists |-> artists, album |-> album] :
        id \in {"x1", "x2"}, name \in {<<"s">>, <<"b">>},
        artists \in {<<>>, <<<<"A">>>>}, album \in {None, Some(<<"B">>)}}

AppleItems ==
    {[id |-> id, name |-> name, artistName |-> artistName, albumName |-> albumName] :
        id \in {"x1", "x2"}, name \in {<<"s">>, <<"b">>},
        artistName \in {None, Some(<<"A">>)}, albumName \in {None, Some(<<"B">>)}}

YouTubeItems ==
    {[videoId |-> id, title |-> title, channelTitle |-> channelTitle] :
        id \in {"x1", "x2"}, title \in {<<"s">>, <<"b">>},
        channelTitle \in {None, Some(<<"A">>)}}

ServiceItems(service) ==
    CASE service = "spotify" -> SpotifyItems
      [] service = "apple_music" -> AppleItems
      [] service = "youtube_music" -> YouTubeItems

\* `if attributes.get("artistName")`: a name that is there and not empty.
NamedArtists(name) == IF name = None \/ name = Some(<<>>) THEN <<>> ELSE <<name.some>>

\* The Track a connector builds from one item of the response.
Candidate(service, item) ==
    CASE service = "spotify" ->
             [id |-> item.id, title |-> item.name, artists |-> item.artists,
              album |-> item.album, isrc |-> None, duration_ms |-> None]
      [] service = "apple_music" ->
             [id |-> item.id, title |-> item.name, artists |-> NamedArtists(item.artistName),
              album |-> item.albumName, isrc |-> None, duration_ms |-> None]
      [] service = "youtube_music" ->
             [id |-> item.videoId, title |-> item.title,
              artists |-> NamedArtists(item.channelTitle),
              album |-> None, isrc |-> None, duration_ms |-> None]

\* SpotifyConnector and AppleMusicConnector: the first candidate with the
\* signature of the query, else the first item, else None.
SearchBySignature(service, track, items) ==
    LET exact == {i \in 1..Len(items) :
                     NormalizedSignature(Candidate(service, items[i]))
                         = NormalizedSignature(track)}
    IN  IF exact # {}
        THEN Candidate(service, items[CHOOSE i \in exact : \A j \in exact : i <= j])
        ELSE IF items # <<>> THEN Candidate(service, items[1])
        ELSE None

\* YouTubeMusicConnector: the first item, or None.
SearchTopResult(service, items) ==
    IF items = <<>> THEN None ELSE Candidate(service, items[1])

SearchTrack(service, track, items) ==
    IF service = "youtube_music"
    THEN SearchTopResult(service, items)
    ELSE SearchBySignature(service, track, items)

\* A connector is about to search its service for a track, and the service
\* has its answer ready.
InitSearch ==
    /\ EngineIdle
    /\ calc = NoCalc
    /\ file = <<>>
    /\ lock = Free
    /\ client = [c \in StoreClients |-> IdleClient]
    /\ hist = [k \in FileKeySet |-> Absent]
    /\ peer = IdleReq
    /\ \E service \in Connectors, track \in SearchQueries :
       \E n \in 0..MaxResults :
       \E items \in [1..n -> ServiceItems(service)] :
           /\ api = [NoApi EXCEPT !.search = items]
           /\ conn = [pc |-> "search_track", op |-> "search_track", service |-> service,
                      track |-> track, result |-> None]

\* matched = await connector.search_track(track) returns.
SearchTrackCall ==
    /\ conn.pc = "search_track"
    /\ conn' = [conn EXCEPT !.pc = "returned",
                            !.result = SearchTrack(conn.service, conn.track, api.search)]
    /\ UNCHANGED <<data, token, tracks, stop_event, sync_lock, task, req, uuid, stopAt, mon,
                   connectors, peer, calc, file, lock, client, hist, api>>

\* The search request fails: spotipy raises, raise_for_status() raises.
SearchTrackFails ==
    /\ conn.pc = "search_track"
    /\ conn' = [conn EXCEPT !.pc = "raised"]
    /\ UNCHANGED <<data, token, tracks, stop_event, sync_lock, task, req, uuid, stopAt, mon,
                   connectors, peer, calc, file, lock, client, hist, api>>

NextSearch == SearchTrackCall \/ SearchTrackFails

SpecSearch == InitSearch /\ [][NextSearch]_vars

\* ----------------------------------------------- Connector.replace_tracks
\* The ids of the tracks a playlist holds or is given.
TrackIds == {"a", "b"}
IdLists == UNION {[1..n -> TrackIds] : n \in 0..MaxTracks}

\* [track.id for track in tracks if track.id]
WithId(ids) == SelectSeq(ids, LAMBDA id : id # "")

\* The entries the service makes for the tracks it is given: each entry has
\* an id of its own.
NewEntries(made, ids) == [i \in 1..Len(ids) |-> [item |-> made + i, track |-> ids[i]]]

EntryTracks(entries) == [i \in 1..Len(entries) |-> entries[i].track]

\* Where replace_tracks goes once the old entries are dealt with.
AfterDelete(todo) == IF todo = <<>> THEN "returned" ELSE "add"

\* A connector is about to replace the tracks of a playlist that holds some.
InitReplace ==
    /\ EngineIdle
    /\ calc = NoCalc
    /\ file = <<>>
    /\ lock = Free
    /\ client = [c \in StoreClients |-> IdleClient]
    /\ hist = [k \in FileKeySet |-> Absent]
    /\ peer = IdleReq
    /\ \E service \in Connectors, held \in IdLists, given \in IdLists :
           /\ api = [NoApi EXCEPT !.entries = NewEntries(0, held), !.created = Len(held)]
           /\ conn = [pc |-> IF service = "spotify" THEN "replace_items" ELSE "list",
                      op |-> "replace_tracks", service |-> service, tracks |-> given,
                      existing |-> <<>>, todo |-> WithId(given)]

\* SpotifyConnector: client.playlist_replace_items(playlist_id, track_ids),
\* with the ids or with [].
ReplaceItems ==
    /\ conn.pc = "replace_items"
    /\ api' = [api EXCEPT !.entries = NewEntries(api.created, conn.todo),
                          !.created = @ + Len(conn.todo)]
    /\ conn' = [conn EXCEPT !.pc = "returned", !.todo = <<>>]
    /\ UNCHANGED <<data, token, tracks, stop_event, sync_lock, task, req, uuid, stopAt, mon,
                   connectors, peer, calc, file, lock, client, hist>>

\* AppleMusicConnector: existing = await self.list_tracks(playlist_id);
\* YouTubeMusicConnector: the GET of the playlist's items.
ReplaceList ==
    /\ conn.pc = "list"
    /\ conn' = [conn EXCEPT !.existing = api.entries,
                            !.pc = IF api.entries # <<>> THEN "delete"
                                   ELSE AfterDelete(conn.todo)]
    /\ UNCHANGED <<data, token, tracks, stop_event, sync_lock, task, req, uuid, stopAt, mon,
                   connectors, peer, calc, file, lock, client, hist, api>>

\* The DELETE request: one for all existing tracks on Apple Music, one for
\* each existing item on YouTube Music.  The service carries it out or
\* answers with an error status; the connector does not look at the
\* response.
ReplaceDelete ==
    /\ conn.pc = "delete"
    /\ \E ok \in BOOLEAN :
           IF conn.service = "apple_music"
           THEN LET gone == {conn.existing[i].track : i \in 1..Len(conn.existing)}
                IN  /\ api' = [api EXCEPT !.entries =
                                   IF ok THEN SelectSeq(@, LAMBDA e : e.track \notin gone)
                                   ELSE @]
                    /\ conn' = [conn EXCEPT !.existing = <<>>, !.pc = AfterDelete(conn.todo)]
           ELSE LET item_id == Head(conn.existing).item
                    rest == Tail(conn.existing)
                IN  /\ api' = [api EXCEPT !.entries =
                                   IF ok THEN SelectSeq(@, LAMBDA e : e.item # item_id)
                                   ELSE @]
                    /\ conn' = [conn EXCEPT !.existing = rest,
                                            !.pc = IF rest = <<>> THEN AfterDelete(conn.todo)
                                                   ELSE "delete"]
    /\ UNCHANGED <<data, token, tracks, stop_event, sync_lock, task, req, uuid, stopAt, mon,
                   connectors, peer, calc, file, lock, client, hist>>

\* The POST request: one for the whole list on Apple Music (a chunk of up
\* to 100 tracks), one for each track on YouTube Music.  Again the response
\* is not looked at.
ReplaceAdd ==
    /\ conn.pc = "add"
    /\ \E ok \in BOOLEAN :
           LET sent == IF conn.service = "apple_music" THEN conn.todo ELSE <<Head(conn.todo)>>
               rest == IF conn.service = "apple_music" THEN <<>> ELSE Tail(conn.todo)
           IN  /\ api' = IF ok
                         THEN [api EXCEPT !.entries = @ \o NewEntries(api.created, sent),
                                          !.created = @ + Len(sent)]
                         ELSE api
               /\ conn' = [conn EXCEPT !.todo = rest,
                                       !.pc = IF rest = <<>> THEN "returned" ELSE "add"]
    /\ UNCHANGED <<data, token, tracks, stop_event, sync_lock, task, req, uuid, stopAt, mon,
                   connectors, peer, calc, file, lock, client, hist>>

\* A request whose failure is raised: spotipy's on Spotify, the listing
\* (raise_for_status) on the two others.
ReplaceFails ==
    /\ conn.pc \in {"replace_items", "list"}
    /\ conn' = [conn EXCEPT !.pc = "raised"]
    /\ UNCHANGED <<data, token, tracks, stop_event, sync_lock, task, req, uuid, stopAt, mon,
                   connectors, peer, calc, file, lock, client, hist, api>>

NextReplace ==
    \/ ReplaceItems
    \/ ReplaceList
    \/ ReplaceDelete
    \/ ReplaceAdd
    \/ ReplaceFails

SpecReplace == InitReplace /\ [][NextReplace]_vars

\* ---------------------------------------------- Connector.ensure_playlist
MaxPlaylists == 2
MaxCalls == 2

PlaylistNames == {<<"S">>, <<"s">>, <<"b">>}

\* The playlists of the account, in the order list_playlists returns them.
PlaylistLists ==
    UNION {{[i \in 1..n |-> [id |-> i, name |-> names[i]]] : names \in [1..n -> PlaylistNames]} :
              n \in 0..MaxPlaylists}

\* FirstNamed that compares the names without regard to letter case.
FirstNamedAnyCase(playlists, name) ==
    LET same == {i \in 1..Len(playlists) : Lower(playlists[i].name) = Lower(name)}
    IN  IF same = {} THEN 0 ELSE CHOOSE i \in same : \A j \in same : i <= j

\* The position of the first playlist of the list with this name, or 0.
FirstNamed(playlists, name) ==
    LET same == {i \in 1..Len(playlists) : playlists[i].name = name}
    IN  IF same = {} THEN 0 ELSE CHOOSE i \in same : \A j \in same : i <= j

\* An account with some playlists, and a name the connector will be asked
\* to ensure.
InitEnsure ==
    /\ EngineIdle
    /\ calc = NoCalc
    /\ file = <<>>
    /\ lock = Free
    /\ client = [c \in StoreClients |-> IdleClient]
    /\ hist = [k \in FileKeySet |-> Absent]
    /\ peer = IdleReq
    /\ \E service \in Connectors, playlists \in PlaylistLists, name \in {<<"S">>, <<"s">>} :
           /\ api = [NoApi EXCEPT !.playlists = playlists, !.created = Len(playlists)]
           /\ conn = [pc |-> "idle", op |-> "ensure_playlist", service |-> service,
                      name |-> name, listed |-> <<>>, calls |-> <<>>]

\* await connector.ensure_playlist(name): the first await is list_playlists.
EnsureCall ==
    /\ conn.op = "ensure_playlist"
    /\ conn.pc \in {"idle", "returned"}
    /\ Len(conn.calls) < MaxCalls
    /\ conn' = [conn EXCEPT !.pc = "list_playlists"]
    /\ UNCHANGED <<data, token, tracks, stop_event, sync_lock, task, req, uuid, stopAt, mon,
                   connectors, peer, calc, file, lock, client, hist, api>>

\* playlists = await self.list_playlists() and the loop over them: the
\* first playlist with the name is returned, or the creation begins.
EnsureList ==
    /\ conn.pc = "list_playlists"
    /\ LET listed == api.playlists
           idx == FirstNamed(listed, conn.name)
       IN  conn' = IF idx # 0
                   THEN [conn EXCEPT !.pc = "returned", !.listed = <<>>,
                                     !.calls = Append(@, [id |-> listed[idx].id,
                                                          created |-> FALSE,
                                                          listed |-> listed])]
                   ELSE [conn EXCEPT !.pc = "create", !.listed = listed]
    /\ UNCHANGED <<data, token, tracks, stop_event, sync_lock, task, req, uuid, stopAt, mon,
                   connectors, peer, calc, file, lock, client, hist, api>>

\* The creation request (user_playlist_create, POST .../playlists): the
\* service makes a playlist with a new id and lists it from now on, first
\* or last; the connector returns it.
EnsureCreate ==
    /\ conn.pc = "create"
    /\ LET made == [id |-> api.created + 1, name |-> conn.name]
       IN  /\ \E first \in BOOLEAN :
                  api' = [api EXCEPT !.created = @ + 1,
                                     !.playlists = IF first THEN <<made>> \o @
                                                   ELSE Append(@, made)]
           /\ conn' = [conn EXCEPT !.pc = "returned", !.listed = <<>>,
                                   !.calls = Append(@, [id |-> made.id, created |-> TRUE,
                                                        listed |-> conn.listed])]
    /\ UNCHANGED <<data, token, tracks, stop_event, sync_lock, task, req, uuid, stopAt, mon,
                   connectors, peer, calc, file, lock, client, hist>>

\* The listing or the creation request fails and the call raises.
EnsureFails ==
    /\ conn.pc \in {"list_playlists", "create"}
    /\ conn' = [conn EXCEPT !.pc = "raised", !.listed = <<>>]
    /\ UNCHANGED <<data, token, tracks, stop_event, sync_lock, task, req, uuid, stopAt, mon,
                   connectors, peer, calc, file, lock, client, hist, api>>

NextEnsure ==
    \/ EnsureCall
    \/ EnsureList
    \/ EnsureCreate
    \/ EnsureFails

SpecEnsure == InitEnsure /\ [][NextEnsure]_vars

\* ================================================================= claims
\* The entries of the mapping of the group at hand that come after the one
\* being synchronised and would be written: not the primary, with a
\* connector whose tokens are ready.
RemainingTargets(r) ==
    {i \in (r.target + 1)..Len(Group(r).playlists) :
        LET service == Group(r).playlists[i][1]
        IN  /\ service # Group(r).primary_service
            /\ service \in connectors
            /\ token[service]}

\* search_track or replace_tracks raised in the sweep of task t.
TargetFailed(t) ==
    /\ task[t].pc = "raised"
    /\ task[t].err \in {"search_track", "replace_tracks"}

\* C1: an exception raised by search_track or replace_tracks for one target
\* does not abort the sweep: when the sweep is over, no eligible target of
\* that group and no later group of the list is left unprocessed.
C1_TargetFailureAbortsNothing ==
    \A t \in Tasks :
        TargetFailed(t) =>
            /\ RemainingTargets(task[t]) = {}
            /\ task[t].g = Len(task[t].groups)

\* C2: when replace_tracks raised in a cycle whose digest differs from the
\* snapshot, the new digest is nevertheless stored as the group's snapshot
\* once the cycle is over.
C2_SnapshotWrittenDespiteFailure ==
    \A t \in Tasks :
        (task[t].pc = "raised" /\ task[t].err = "replace_tracks") =>
            StorageGet(data, SnapshotKey(Group(task[t]).id), None) = task[t].digest

\* C3: a connector failure never ends the background loop: as long as
\* stop() has not been called, run() has neither returned nor died.
C3_LoopSurvivesFailure ==
    ~stop_event => task[Sched].pc \notin {"returned", "raised"}

\* C4: the sweep of the scheduler loop and an externally triggered run_once
\* never execute at the same time.
C4_SweepsSerialized == ~(InSweep(Sched) /\ InSweep(Manual))

\* C5: a run_once that directly follows a run_once that returned, with no
\* change of the source playlist, the groups or the linked services since
\* the first began and no other sweep beside them, never calls
\* replace_tracks.
C5_SecondRunWritesNothing ==
    mon.prior => \A t \in Tasks : task[t].pc # "replace_tracks"

\* The second of two such runs is at the digest comparison of a group with
\* a non-empty source whose snapshot the first run has written.
C5_Witness ==
    /\ mon.prior
    /\ task[Sched].pc = "get_snapshot"
    /\ task[Sched].source_tracks # <<>>
    /\ StorageGet(data, SnapshotKey(Group(task[Sched]).id), None) = task[Sched].digest

\* C6: once stop() has been called, run() eventually ends: it returns,
\* unless a connector call raised, which ends it as well.
C6_StopLeadsToReturn ==
    stop_event ~> (task[Sched].pc = "returned" \/ task[Sched].pc = "raised")

\* stop() arrived during a sweep over a stored group and run() has returned.
C6_Witness ==
    /\ stop_event
    /\ stopAt = "sweep"
    /\ Len(task[Sched].groups) >= 1
    /\ task[Sched].pc = "returned"

\* C7: once the stop signal is set, the scheduler loop never enters run_once
\* again.
C7_NoSweepAfterStop ==
    [][stop_event => ~(task[Sched].pc # "load_groups" /\ task'[Sched].pc = "load_groups")]_vars

\* stop() arrived during the inter-cycle wait and run() has returned.
C7_Witness ==
    /\ stop_event
    /\ stopAt = "wait"
    /\ task[Sched].pc = "returned"

\* C8: when run() returns after a stop() that arrived during a sweep, that
\* sweep has gone through every group of its list.
C8_InFlightSweepCompletes ==
    (task[Sched].pc = "returned" /\ stopAt = "sweep") =>
        task[Sched].g > Len(task[Sched].groups)

\* stop() arrived while groups of the sweep were still to be processed, and
\* run() has returned after processing them.
C8_Witness ==
    /\ task[Sched].pc = "returned"
    /\ stopAt = "sweep"
    /\ Len(task[Sched].groups) >= 2
    /\ task[Sched].g > Len(task[Sched].groups)

\* The replace_tracks calls of the cycle of task t made on `service`.
CallsOn(r, service) == {i \in 1..Len(r.calls) : r.calls[i].service = service}

AllHit(found) == \A i \in 1..Len(found) : found[i] # None
AllMiss(found) == \A i \in 1..Len(found) : found[i] = None

\* C9: at the end of a cycle over a changed source list of N tracks, a
\* token-ready target on which every search_track matched has been replaced
\* with the N matches, and one on which none matched with the empty list.
C9_FanOut ==
    \A t \in Tasks :
        task[t].pc = "set_snapshot" =>
            LET r == task[t]
            IN  \A service \in r.ready :
                    \E i \in CallsOn(r, service) :
                        LET call == r.calls[i]
                        IN  /\ call.playlist_id = DictGet(Group(r).playlists, service)
                            /\ Len(call.found) = Len(r.source_tracks)
                            /\ AllHit(call.found) =>
                                   call.tracks = [k \in 1..Len(r.source_tracks) |->
                                                      SearchHit(service, r.source_tracks[k])]
                            /\ AllMiss(call.found) => call.tracks = <<>>

\* A cycle over two tracks has replaced one target with both matches and
\* the other with the empty list.
C9_Witness ==
    /\ task[Sched].pc = "set_snapshot"
    /\ Len(task[Sched].source_tracks) = 2
    /\ Len(task[Sched].calls) = 2
    /\ Len(task[Sched].calls[1].tracks) = 2
    /\ task[Sched].calls[2].tracks = <<>>

Compact(found) == SelectSeq(found, LAMBDA x : x # None)

\* C10: at the end of a cycle over a changed source list the replace_tracks
\* calls are, in the order of the mapping, one per eligible target, each
\* with the search_track results for the source tracks, in source order,
\* without the no-match results.
C10_OneReplacePerTarget ==
    \A t \in Tasks :
        task[t].pc = "set_snapshot" =>
            LET r == task[t]
                eligible == SelectSeq(Group(r).playlists,
                                      LAMBDA item : /\ item[1] # Group(r).primary_service
                                                    /\ item[1] \in connectors
                                                    /\ item[1] \in r.ready)
            IN  /\ Len(r.calls) = Len(eligible)
                /\ \A i \in 1..Len(eligible) :
                       /\ r.calls[i].service = eligible[i][1]
                       /\ r.calls[i].playlist_id = eligible[i][2]
                       /\ Len(r.calls[i].found) = Len(r.source_tracks)
                       /\ \A k \in 1..Len(r.source_tracks) :
                              r.calls[i].found[k] \in
                                  {None, SearchHit(eligible[i][1], r.source_tracks[k])}
                       /\ r.calls[i].tracks = Compact(r.calls[i].found)

\* A cycle over two tracks has replaced a target with the match of the
\* second track only, the first having none.
C10_Witness ==
    /\ task[Sched].pc = "set_snapshot"
    /\ Len(task[Sched].source_tracks) = 2
    /\ Len(task[Sched].calls) = 2
    /\ task[Sched].calls[1].found[1] = None
    /\ task[Sched].calls[1].tracks = <<SearchHit("apple_music", task[Sched].source_tracks[2])>>

\* The entries of the mapping of the group at hand that _sync_targets goes
\* on to a token test for: not the primary, with a registered connector.
Candidates(r) ==
    SelectSeq(Group(r).playlists,
              LAMBDA item : item[1] # Group(r).primary_service /\ item[1] \in connectors)

\* Those of them whose connector reported token_ready() in this cycle.
Eligible(r) == SelectSeq(Candidates(r), LAMBDA item : item[1] \in r.ready)

\* C11: in a cycle whose source list is empty and whose digest differs from
\* the snapshot (or there is none yet), no search_track call is made and, at
\* the end, every eligible target has received replace_tracks(playlist_id, []).
C11_EmptySourceClearsTargets ==
    \A t \in Tasks :
        LET r == task[t]
        IN  /\ r.pc = "search_track" => r.source_tracks # <<>>
            /\ (r.pc = "set_snapshot" /\ r.source_tracks = <<>>) =>
                   /\ Len(r.calls) = Len(Eligible(r))
                   /\ \A i \in 1..Len(r.calls) :
                          /\ r.calls[i].service = Eligible(r)[i][1]
                          /\ r.calls[i].playlist_id = Eligible(r)[i][2]
                          /\ r.calls[i].tracks = <<>>
                          /\ r.calls[i].found = <<>>

\* The first cycle of a group whose source playlist is empty has cleared
\* both of its mirrors and is about to write the first snapshot.
C11_Witness ==
    /\ task[Sched].pc = "set_snapshot"
    /\ task[Sched].source_tracks = <<>>
    /\ ~data[SnapshotKey(Group(task[Sched]).id)].present
    /\ Len(task[Sched].calls) = 2
    /\ task[Sched].calls[2].tracks = <<>>

\* C12: a group whose primary connector reports token_ready() false is
\* skipped in that cycle: the step that makes the test goes on to the next
\* group (or ends the sweep) without a list_tracks or replace_tracks call,
\* and the state store is not written.
C12_TokenlessPrimarySkipsGroup ==
    [][\A t \in Tasks :
          (/\ task[t].pc = "sync_group"
           /\ Group(task[t]).primary_service \in connectors
           /\ ~token[Group(task[t]).primary_service]
           /\ task'[t] # task[t]) =>
              /\ task'[t].pc \in {"sync_group", "wait", "returned"}
              /\ task'[t].g = task[t].g + 1
              /\ task'[t].calls = <<>>
              /\ data' = data]_vars

\* A sweep over a stored group has ended while the tokens of its primary
\* service were missing throughout; no snapshot was written.
C12_Witness ==
    /\ task[Sched].pc = "wait"
    /\ Len(task[Sched].groups) >= 1
    /\ ~token["spotify"]
    /\ token["apple_music"]
    /\ \A i \in GroupIds : ~data[SnapshotKey(i)].present

\* The position of the first candidate target after the one at hand, or 0.
NextCandidate(r) ==
    LET rest == {i \in (r.target + 1)..Len(Group(r).playlists) :
                    /\ Group(r).playlists[i][1] # Group(r).primary_service
                    /\ Group(r).playlists[i][1] \in connectors}
    IN  IF rest = {} THEN 0 ELSE CHOOSE i \in rest : \A j \in rest : i <= j

\* C13: a target whose connector reports token_ready() false gets no
\* search_track and no replace_tracks call (the calls of the cycle are made
\* on targets that reported true only), and the loop goes on with the next
\* target of the group instead of ending.
C13_TokenlessTargetSkipped ==
    /\ [](\A t \in Tasks :
             /\ task[t].pc \in {"search_track", "replace_tracks"} =>
                    Target(task[t])[1] \in task[t].ready
             /\ \A i \in 1..Len(task[t].calls) : task[t].calls[i].service \in task[t].ready)
    /\ [][\A t \in Tasks :
             (/\ task[t].pc = "sync_target"
              /\ ~token[Target(task[t])[1]]
              /\ task'[t] # task[t]) =>
                 /\ task'[t].calls = task[t].calls
                 /\ task'[t].ready = task[t].ready
                 /\ IF NextCandidate(task[t]) = 0
                    THEN task'[t].pc = "set_snapshot"
                    ELSE /\ task'[t].pc = "sync_target"
                         /\ task'[t].target = NextCandidate(task[t])]_vars

\* The first mirror of a group was skipped for its missing tokens and the
\* second one has been written with the matches of the source list.
C13_Witness ==
    /\ task[Sched].pc = "set_snapshot"
    /\ Len(Candidates(task[Sched])) = 2
    /\ task[Sched].ready = {"youtube_music"}
    /\ ~token["apple_music"]
    /\ Len(task[Sched].calls) = 1
    /\ task[Sched].calls[1].service = "youtube_music"
    /\ task[Sched].calls[1].tracks # <<>>

\* C14: a snapshot is written only by the last step of a cycle of its group:
\* every eligible target of the group has had its replace_tracks call, the
\* value written is the digest of the source list fetched in that cycle, and
\* the cycle is over with the write.
C14_SnapshotWrittenLast ==
    [][\A i \in GroupIds :
          data'[SnapshotKey(i)] # data[SnapshotKey(i)] =>
              \E t \in Tasks :
                  LET r == task[t]
                  IN  /\ r.pc = "set_snapshot"
                      /\ Group(r).id = i
                      /\ r.target > Len(Group(r).playlists)
                      /\ Len(r.calls) = Len(Eligible(r))
                      /\ \A k \in 1..Len(r.calls) : r.calls[k].service = Eligible(r)[k][1]
                      /\ r.digest = TracksDigest(r.source_tracks)
                      /\ data'[SnapshotKey(i)] = Present(r.digest)
                      /\ task'[t].pc \in {"sync_group", "wait", "returned"}
                      /\ task'[t].g = r.g + 1]_vars

\* The snapshot of a group holds the digest of the two tracks its cycle
\* fetched, while the source playlist has been edited since the fetch.
C14_Witness ==
    /\ task[Sched].pc = "wait"
    /\ data[SnapshotKey(1)].present
    /\ data[SnapshotKey(1)].value = TracksDigest([i \in 1..2 |-> Track("spotify", Titles[i])])
    /\ data[SnapshotKey(1)].value # TracksDigest(tracks["spotify"])

\* The fields of the tracks of a list that the digest is meant to cover.
DigestFields(list) ==
    [i \in 1..Len(list) |->
        <<list[i].id, list[i].title, list[i].artists, list[i].album, list[i].isrc>>]

\* C15: two track lists have equal digests exactly when their sequences of
\* (id, title, artists, album, isrc) are equal: a change in one of these
\* fields, in the number of tracks or in their order changes the digest, a
\* change in duration_ms alone does not.
C15_DigestOfFields ==
    calc.pc = "done" =>
        ((calc.da = calc.db) <=> (DigestFields(calc.a) = DigestFields(calc.b)))

\* Two lists of two tracks that differ in a duration_ms only have been
\* given the same digest.
C15_Witness ==
    /\ calc.pc = "done"
    /\ Len(calc.a) = 2
    /\ calc.a # calc.b
    /\ calc.da = calc.db

\* A playlists dict as the mapping it is, whatever the order of its items.
MappingOf(items) == [service \in DictKeys(items) |-> DictGet(items, service)]

WithoutId(groups, group_id) == SelectSeq(groups, LAMBDA group : group.id # group_id)

C17_UpdateReplacesMapping ==
    [][/\ (req.pc = "save" /\ req.op = "update" /\ req'.pc = "idle") =>
             LET before == LoadGroups(data)
                 after == LoadGroups(data')
             IN  /\ Len(after) = Len(before)
                 /\ IndexOf(before, req.id) # 0
                 /\ \A i \in 1..Len(before) :
                        IF i = IndexOf(before, req.id)
                        THEN /\ after[i].id = before[i].id
                             /\ after[i].name = before[i].name
                             /\ after[i].primary_service = before[i].primary_service
                             /\ MappingOf(after[i].playlists) = MappingOf(req.playlists)
                        ELSE after[i] = before[i]
                 /\ ApiUpdateStatus(req'.result) = 200
                 /\ req'.result.id = req.id
                 /\ MappingOf(req'.result.playlists) = MappingOf(req.playlists)
       /\ (req.pc = "idle" /\ req'.op = "update" /\ req' # req) =>
             IF IndexOf(LoadGroups(data), req'.id) = 0
             THEN /\ req'.pc = "idle"
                  /\ req'.result = None
                  /\ ApiUpdateStatus(req'.result) = 404
                  /\ data' = data
             ELSE /\ req'.pc = "save"
                  /\ data' = data]_vars

\* The second of two groups has been given a mapping of two entries and
\* was returned; the first still has its three.
C17_Witness ==
    /\ req.pc = "idle"
    /\ req.op = "update"
    /\ req.id = 2
    /\ req.result # None
    /\ Len(LoadGroups(data)) = 2
    /\ Len(LoadGroups(data)[1].playlists) = 3
    /\ DictKeys(LoadGroups(data)[2].playlists) = {"spotify", "youtube_music"}

\* C18: when create_group completes, the persisted list is the list as it
\* was with one group more at its end, which load_groups() returns with
\* the name, the primary service and the mapping that were given and the
\* id of the group the call returned.
C18_CreateAppends ==
    [][(req.pc = "save" /\ req.op = "create" /\ req'.pc = "idle") =>
          LET before == LoadGroups(data)
              after == LoadGroups(data')
          IN  /\ Len(after) = Len(before) + 1
              /\ SubSeq(after, 1, Len(before)) = before
              /\ after[Len(after)].id = req'.result.id
              /\ \E input \in GroupInputs :
                     /\ input.playlists = req.playlists
                     /\ after[Len(after)].name = input.name
                     /\ after[Len(after)].primary_service = input.primary_service
                     /\ MappingOf(after[Len(after)].playlists) = MappingOf(input.playlists)]_vars

\* A second group has been created and is the last of the two of the list.
C18_Witness ==
    /\ req.pc = "idle"
    /\ req.op = "create"
    /\ req.result # None
    /\ Len(LoadGroups(data)) = 2
    /\ LoadGroups(data)[2].id = req.result.id
    /\ LoadGroups(data)[1].id # req.result.id

\* The value a key has in the file, as get would return it.
Stored(key, default) ==
    LET d == ReadFile(file)
    IN  IF key \in DictKeys(d) THEN DictGet(d, key) ELSE default

\* The value a key should have after the writes made so far.
Expected(key, default) == IF hist[key].present THEN hist[key].value ELSE default

\* C19: whatever the interleaving of concurrent set and delete calls, when
\* all calls have completed every key holds the value of the last set
\* applied to it, or none if a delete came last: no write of one key undoes
\* a write of another.
C19_NoLostUpdate ==
    (\A c \in StoreClients : client[c].pc = "idle") =>
        \A key \in FileKeySet :
            /\ PyEqual(Stored(key, None), Expected(key, None))
            /\ (key \in DictKeys(ReadFile(file))) = hist[key].present

\* A set of one key has been applied, and a set of the other key is about
\* to write the file it read while the other caller waits for the lock.
C19_Witness ==
    /\ hist["token"].present
    /\ client["c1"].pc = "write"
    /\ client["c1"].op = "set"
    /\ client["c1"].key = "sync_groups"
    /\ DictKeys(client["c1"].data) = FileKeySet
    /\ client["c2"].pc = "acquire"
    /\ client["c2"].op = "delete"

\* C20: a get returns the value of the last set of its key, and its default
\* when the key was never set or a delete came after the last set.
C20_RoundTrip ==
    [][\A c \in StoreClients :
          (client[c].pc = "read" /\ client[c].op = "get" /\ client'[c].pc = "idle") =>
              PyEqual(client'[c].result, Expected(client[c].key, client[c].default))]_vars

\* A get with a default has returned, from the file, the dict that was set
\* with its items in another order than the file has them.
C20_Witness ==
    \E c \in StoreClients :
        /\ client[c].pc = "idle"
        /\ client[c].op = "get"
        /\ hist[client[c].key].present
        /\ IsDict(client[c].result)
        /\ Len(client[c].result.dict) = 2
        /\ client[c].result # hist[client[c].key].value
\* C21: no step of the background task (run, run_once, _sync_group,
\* _sync_targets) writes the "sync_groups" key: the stored list of groups is
\* after the step what it was before it, whatever the registry calls do in
\* between the steps.
C21_SweepLeavesGroupsKey ==
    [][task' # task => data'[GroupsKey] = data[GroupsKey]]_vars

\* A sweep over a stored group has written its snapshot and returned.
C21_Witness ==
    /\ task[Sched].pc = "wait"
    /\ LoadGroups(data) # <<>>
    /\ \E id \in GroupIds : data[SnapshotKey(id)] # Absent

\* The one-character strings that differ in letter case only.
CasePairs == {<<"S", "s">>, <<"A", "a">>, <<"B", "b">>}

SameLetter(x, y) == x = y \/ <<x, y>> \in CasePairs \/ <<y, x>> \in CasePairs

SameText(x, y) == Len(x) = Len(y) /\ \A i \in 1..Len(x) : SameLetter(x[i], y[i])

\* Two tracks with the same title, artists and album up to letter case, an
\* absent album counting as the empty one.
SameSong(a, b) ==
    /\ SameText(a.title, b.title)
    /\ Len(a.artists) = Len(b.artists)
    /\ \A i \in 1..Len(a.artists) : SameText(a.artists[i], b.artists[i])
    /\ SameText(IF a.album = None THEN <<>> ELSE a.album.some,
                IF b.album = None THEN <<>> ELSE b.album.some)

\* C25: normalized_signature reads title, artists and album only, and
\* without regard to letter case: two tracks that agree on these three up to
\* letter case, whatever their id, isrc and duration_ms, have the same
\* signature, and a track without album has the signature of the same track
\* with the empty album.
C25_SignatureOfSong ==
    calc.pc = "signed" /\ SameSong(calc.a, calc.b) => calc.da = calc.db

\* The signatures of two tracks that differ in id, isrc, duration_ms and in
\* the letter case of title, artist and album have been taken.
C25_Witness ==
    /\ calc.pc = "signed"
    /\ SameSong(calc.a, calc.b)
    /\ calc.a.id # calc.b.id
    /\ calc.a.title # calc.b.title
    /\ calc.a.artists # calc.b.artists
    /\ calc.a.album # calc.b.album
    /\ calc.a.album # None /\ calc.b.album # None
    /\ calc.da = calc.db

\* The candidates of the search a connector call has made.
SearchCandidates ==
    [i \in 1..Len(api.search) |-> Candidate(conn.service, api.search[i])]

ExactMatches ==
    {i \in 1..Len(api.search) :
        NormalizedSignature(SearchCandidates[i]) = NormalizedSignature(conn.track)}

\* C22: on every connector, search_track returns a candidate with the
\* signature of the query whenever the results hold one, the top result
\* when they hold none, and no match when there are no results.
C22_SearchPrefersExactMatch ==
    conn.pc = "returned" /\ conn.op = "search_track" =>
        IF api.search = <<>> THEN conn.result = None
        ELSE IF ExactMatches = {} THEN conn.result = SearchCandidates[1]
        ELSE /\ conn.result # None
             /\ NormalizedSignature(conn.result) = NormalizedSignature(conn.track)

\* C23: once replace_tracks(playlist_id, tracks) has returned, on any
\* connector, the playlist holds exactly the given tracks in the given
\* order; with no tracks given it is empty.
C23_ReplaceExact ==
    conn.pc = "returned" /\ conn.op = "replace_tracks" =>
        EntryTracks(api.entries) = conn.tracks

\* C24: ensure_playlist(name) returns the first playlist of the listing
\* whose name is exactly the given one, letter case included, and creates a
\* playlist only when the listing holds none; calls that follow each other
\* with the same name return the same playlist id and create at most one
\* playlist between them.
C24_EnsureIdempotent ==
    conn.op = "ensure_playlist" =>
        /\ \A k \in 1..Len(conn.calls) :
               LET call == conn.calls[k]
                   same == {i \in 1..Len(call.listed) : call.listed[i].name = conn.name}
               IN  IF same = {}
                   THEN /\ call.created
                        /\ \A i \in 1..Len(call.listed) : call.listed[i].id # call.id
                   ELSE /\ ~call.created
                        /\ \E i \in same : /\ call.listed[i].id = call.id
                                            /\ \A j \in same : i <= j
        /\ \A k \in 1..Len(conn.calls), l \in 1..Len(conn.calls) :
               /\ conn.calls[k].id = conn.calls[l].id
               /\ k < l => ~conn.calls[l].created

\* Two calls have returned: the first one created the playlist, next to a
\* playlist whose name differs in letter case only.
C24_Witness ==
    /\ conn.op = "ensure_playlist"
    /\ conn.pc = "returned"
    /\ Len(conn.calls) = 2
    /\ conn.calls[1].created
    /\ \E i \in 1..Len(conn.calls[1].listed) :
           /\ conn.calls[1].listed[i].name # conn.name
           /\ Lower(conn.calls[1].listed[i].name) = Lower(conn.name)

\* C26: when delete_group(id) runs while a sweep that has loaded the group
\* is in flight, then once both have completed no snapshot is left in the
\* store for a group that the registry no longer holds.
C26_NoOrphanSnapshot ==
    req.pc = "idle" /\ ~InSweep(Sched) =>
        \A id \in GroupIds :
            data[SnapshotKey(id)] # Absent =>
                \E i \in 1..Len(LoadGroups(data)) : LoadGroups(data)[i].id = id

\* The registry call that writes the list of groups in this step is about
\* the group with this id.
Saving(id) ==
    \/ req.pc = "save" /\ req' # req /\ req.id = id
    \/ peer.pc = "save" /\ peer' # peer /\ peer.id = id

\* C27: registry calls running concurrently (two create_group, or a
\* create_group next to an update_group or delete_group of another group)
\* do not lose each other's updates: the save of one call leaves in the
\* stored list, unchanged, every group the list held except the one the
\* call is about.
C27_NoLostRegistryUpdate ==
    [][\A i \in 1..Len(LoadGroups(data)) :
           LET group == LoadGroups(data)[i]
           IN  \/ Saving(group.id)
               \/ \E j \in 1..Len(LoadGroups(data')) : LoadGroups(data')[j] = group]_vars

\* The mappings the stored group can have.
Mappings == {<<<<"spotify", PlaylistId("spotify")>>,
               <<"apple_music", PlaylistId("apple_music")>>>>} \cup UpdateInputs

\* The stored group has this mapping, no call is changing it, and every
\* service of the mapping is linked.
Settled(playlists) ==
    /\ LET stored == LoadGroups(data)[1].playlists
       IN  {stored[i] : i \in 1..Len(stored)} = {playlists[k] : k \in 1..Len(playlists)}
    /\ req.pc = "idle"
    /\ \A service \in DictKeys(playlists) : token[service]

\* The sweep in flight has called replace_tracks on this entry of the
\* mapping with the matches of the source list.
Mirrored(entry) ==
    \E i \in 1..Len(task[Sched].calls) :
        /\ task[Sched].calls[i].service = entry[1]
        /\ task[Sched].calls[i].playlist_id = entry[2]
        /\ task[Sched].source_tracks = tracks["spotify"]

\* C28: if from some point on the source list and the mapping of a group do
\* not change, every connector of the mapping has its tokens and no call
\* raises, then every mirror of the mapping eventually receives a
\* replace_tracks call with the matches of the source list, also a mirror
\* that was skipped for its tokens, or was not in the mapping yet, when the
\* source list was last seen to have changed.
C28_EventualMirroring ==
    \A playlists \in Mappings :
        \A k \in 1..Len(playlists) :
            ([](task[Sched].pc # "raised") /\ <>[]Settled(playlists)
                 /\ playlists[k][1] # "spotify")
                => <>Mirrored(playlists[k])

\* C29: when list_tracks of the primary connector raises, the group is
\* skipped for the cycle (no replace_tracks call, snapshot as it was) and the
\* sweep goes on: when it is over, no later group of the list is left
\* unprocessed.
C29_SourceFailureSkipsGroup ==
    \A t \in Tasks :
        (task[t].pc = "raised" /\ task[t].err = "list_tracks") =>
            task[t].g = Len(task[t].groups)

\* C30: while a group is reconciled, search_track and replace_tracks are
\* never invoked for the entry of the group's primary service, wherever that
\* entry stands in the mapping.
C30_PrimaryNeverWritten ==
    \A t \in Tasks :
        LET r == task[t]
        IN  /\ r.pc \in {"search_track", "replace_tracks"} =>
                   Target(r)[1] # Group(r).primary_service
            /\ \A i \in 1..Len(r.calls) : r.calls[i].service # Group(r).primary_service

\* A cycle has called replace_tracks on the mirrors that stand before and
\* after the primary's entry in the mapping, and is through with the
\* mapping.
C30_Witness ==
    LET r == task[Sched]
    IN  /\ r.pc = "set_snapshot"
        /\ Len(r.calls) = 2
        /\ \E k \in 2..(Len(Group(r).playlists) - 1) :
               Group(r).playlists[k][1] = Group(r).primary_service

\* The group cannot be reconciled: its primary service has no connector,
\* or its mapping names no source playlist.
NoSource(group) == group.primary_service \notin connectors \/ NoSourcePlaylist(group)

\* C31: a group whose primary service has no registered connector, or whose
\* mapping has no non-empty entry for the primary service, is skipped without
\* error: the step that finds this out goes on to the next group (or ends
\* the sweep) without a list_tracks or replace_tracks call, and the state
\* store is not written.
C31_SourcelessGroupSkipped ==
    [][\A t \in Tasks :
          (/\ task[t].pc = "sync_group"
           /\ NoSource(Group(task[t]))
           /\ task'[t] # task[t]) =>
              /\ task'[t].pc = IF task[t].g < Len(task[t].groups) THEN "sync_group"
                               ELSE IF t = Sched THEN "wait" ELSE "returned"
              /\ task'[t].g = task[t].g + 1
              /\ task'[t].calls = <<>>
              /\ data' = data]_vars

\* A sweep has ended whose first group has no source playlist and whose
\* second group was reconciled: only the second has a snapshot.
C31_Witness ==
    /\ task[Sched].pc = "wait"
    /\ Len(task[Sched].groups) = 2
    /\ "spotify" \in connectors
    /\ NoSource(task[Sched].groups[1])
    /\ ~data[SnapshotKey(1)].present
    /\ data[SnapshotKey(2)].present

\* The targets of the group at hand that have a connector and whose service
\* is linked (where the tokens do not change during the cycle, the targets
\* whose connector reports token_ready()).
Linked(r) == SelectSeq(Candidates(r), LAMBDA item : token[item[1]])

\* C32: a target whose service has no registered connector is skipped
\* silently: no call is made for it, the targets after it are written as
\* they would be without it (at the end of the cycle the replace_tracks
\* calls are those for the registered, token-ready targets, in the order of
\* the mapping), and the step that ends the cycle stores the snapshot.
C32_UnregisteredTargetSkipped ==
    /\ [](\A t \in Tasks :
             LET r == task[t]
             IN  /\ r.pc \in {"sync_target", "search_track", "replace_tracks"} =>
                        Target(r)[1] \in connectors
                 /\ \A i \in 1..Len(r.calls) : r.calls[i].service \in connectors
                 /\ r.pc = "set_snapshot" =>
                        /\ Len(r.calls) = Len(Linked(r))
                        /\ \A i \in 1..Len(r.calls) :
                               /\ r.calls[i].service = Linked(r)[i][1]
                               /\ r.calls[i].playlist_id = Linked(r)[i][2])
    /\ [][\A t \in Tasks :
             (task[t].pc = "set_snapshot" /\ task'[t] # task[t]) =>
                 data'[SnapshotKey(Group(task[t]).id)] = Present(task[t].digest)]_vars

\* A cycle is through with a mapping whose first target has no connector:
\* the target after it has been written.
C32_Witness ==
    LET r == task[Sched]
    IN  /\ r.pc = "set_snapshot"
        /\ "apple_music" \notin connectors
        /\ Group(r).playlists[1][1] = "apple_music"
        /\ Len(r.calls) = 1
        /\ r.calls[1].service = "youtube_music"

\* C33: a sweep works on the list of groups as load_groups returned it at
\* its start: from then on its list stays the same whatever is created,
\* updated or deleted meanwhile, the groups are taken one at a time in list
\* order, each once, every replace_tracks call is made on an entry of the
\* mapping the group had in that list, and the sweep returns only after the
\* last group.
C33_SweepOverListReadOnce ==
    [][LET r == task[Sched]
           next == task'[Sched]
       IN  /\ (r.pc = "load_groups" /\ next # r) =>
                  /\ next.groups = LoadGroups(data)
                  /\ next.g = 1
           /\ (InSweep(Sched) /\ r.pc # "load_groups" /\ next # r /\ next.pc # "raised") =>
                  /\ next.groups = r.groups
                  /\ next.g \in {r.g, r.g + 1}
                  /\ next.g = r.g + 1 =>
                         next.pc = IF r.g < Len(r.groups) THEN "sync_group" ELSE "wait"
                  /\ next.g = r.g => next.pc \in SweepPcs
                  /\ Len(next.calls) > Len(r.calls) =>
                         LET call == next.calls[Len(next.calls)]
                         IN  \E k \in 1..Len(r.groups[r.g].playlists) :
                                 r.groups[r.g].playlists[k] = <<call.service, call.playlist_id>>
      ]_vars

\* A sweep over a stored group has written the group's mirrors and returned
\* while the registry was changed under it: the list it worked on is not
\* the stored one.
C33_Witness ==
    /\ task[Sched].pc = "wait"
    /\ Len(task[Sched].groups) >= 1
    /\ task[Sched].groups # LoadGroups(data)
    /\ data[SnapshotKey(task[Sched].groups[1].id)].present

\* C34: no step of create_group or update_group creates, changes or removes
\* a snapshot key; and a sweep that finds the stored snapshot of a group
\* equal to the digest of its source list leaves the group without a
\* replace_tracks call, also when update_group has changed the group's
\* mapping since the snapshot was written.
C34_RegistryLeavesSnapshots ==
    [][/\ (req' # req /\ req.op \in {"none", "create", "update"}
                      /\ req'.op \in {"create", "update"}) =>
              \A id \in GroupIds : data'[SnapshotKey(id)] = data[SnapshotKey(id)]
       /\ LET r == task[Sched]
              next == task'[Sched]
          IN  (/\ r.pc = "get_snapshot"
               /\ next # r
               /\ data[SnapshotKey(Group(r).id)] = Present(TracksDigest(tracks["spotify"]))) =>
                  /\ next.g = r.g + 1
                  /\ next.calls = <<>>
                  /\ next.pc \in {"sync_group", "wait"}
                  /\ data' = data
      ]_vars

\* update_group has returned the group with its new mapping, and a sweep
\* that loaded this mapping is at the comparison with a stored snapshot
\* that equals the digest of the source list.
C34_Witness ==
    LET r == task[Sched]
    IN  /\ req.pc = "idle"
        /\ req.op = "update"
        /\ req.result # None
        /\ r.pc = "get_snapshot"
        /\ Group(r).id = req.id
        /\ {Group(r).playlists[k] : k \in 1..Len(Group(r).playlists)} =
               {req.result.playlists[k] : k \in 1..Len(req.result.playlists)}
        /\ data[SnapshotKey(Group(r).id)] = Present(r.digest)

\* C35: the cycle of a group changes no snapshot but the one under the
\* group's own id; whether it goes on to write the targets is decided by
\* that snapshot and the digest of the group's own source list alone; and
\* the group whose source the user never edits makes no replace_tracks
\* call once its snapshot is stored, whatever happens to the source of
\* the other group.
C35_SnapshotPerGroup ==
    /\ [](LET r == task[Sched]
          IN  (/\ InSweep(Sched)
               /\ r.pc # "load_groups"
               /\ r.g <= Len(r.groups)
               /\ Group(r).id = 2
               /\ data[SnapshotKey(2)].present) =>
                  /\ r.calls = <<>>
                  /\ r.pc \in {"sync_group", "list_tracks", "get_snapshot"})
    /\ [][LET r == task[Sched]
              next == task'[Sched]
          IN  /\ \A id \in GroupIds :
                     data'[SnapshotKey(id)] # data[SnapshotKey(id)] =>
                         /\ r.pc = "set_snapshot"
                         /\ Group(r).id = id
                         /\ data'[SnapshotKey(id)] =
                                Present(TracksDigest(r.source_tracks))
              /\ (r.pc = "list_tracks" /\ next # r /\ next.pc # "raised") =>
                     next.digest = TracksDigest(tracks[Group(r).primary_service])
              /\ (r.pc = "get_snapshot" /\ next # r) =>
                     (next.g = r.g /\ next.pc \in {"sync_target", "set_snapshot"})
                         <=> data[SnapshotKey(Group(r).id)] # Present(r.digest)
         ]_vars

\* The second group is left at the comparison of digests while the
\* snapshot of the first group differs from the digest of its edited
\* source.
C35_Witness ==
    LET r == task[Sched]
    IN  /\ r.pc = "sync_group"
        /\ r.g = 2
        /\ data[SnapshotKey(1)].present
        /\ data[SnapshotKey(2)] = Present(TracksDigest(tracks["apple_music"]))
        /\ data[SnapshotKey(1)] # Present(TracksDigest(tracks["spotify"]))
        /\ data[SnapshotKey(1)] # data[SnapshotKey(2)]

\* C36: once the stop event is set no step clears it, and a call of run()
\* that finds it set, the first call or a later one, returns from the loop
\* condition without entering run_once.
C36_StopIsSticky ==
    [][/\ stop_event => stop_event'
       /\ (stop_event /\ task[Sched] = Locals("check") /\ task' # task) =>
              task'[Sched] = Locals("returned")
      ]_vars

\* stop() came while run() was in a sweep or in its wait; that run() has
\* ended, and a later call of run() has returned with the locals it
\* started with, the stop event still set.
C36_Witness ==
    /\ stop_event
    /\ stopAt \in {"wait", "sweep"}
    /\ task[Sched] = Locals("returned")
    /\ data[SnapshotKey(1)].present

\* The ids of a list of groups, in list order.
Ids(groups) == [i \in 1..Len(groups) |-> groups[i].id]

\* C37: no two groups of the stored list have the same id; create_group
\* saves the list it loaded with one group more, whose id is in no stored
\* group; update_group saves the groups it loaded under their ids and
\* returns the group under the id it was asked for; delete_group saves the
\* other groups under their ids.
C37_GroupIdsUniqueAndStable ==
    /\ [](LET groups == LoadGroups(data)
          IN  \A i, j \in 1..Len(groups) : groups[i].id = groups[j].id => i = j)
    /\ [][(req.pc = "save" /\ req' # req) =>
              LET saved == Ids(LoadGroups(data'))
                  loaded == Ids(req.before)
              IN  /\ req.op = "create" =>
                         /\ saved = Append(loaded, req.id)
                         /\ req'.result.id = req.id
                         /\ \A i \in 1..Len(LoadGroups(data)) :
                                LoadGroups(data)[i].id # req.id
                  /\ req.op = "update" =>
                         /\ saved = loaded
                         /\ req'.result.id = req.id
                  /\ req.op = "delete" =>
                         saved = SelectSeq(loaded, LAMBDA id : id # req.id)
         ]_vars

\* Two groups are stored and update_group has returned one of them.
C37_Witness ==
    /\ Len(LoadGroups(data)) = 2
    /\ req.pc = "idle"
    /\ req.op = "update"
    /\ req.result # None
    /\ req.result.id = req.id

\* What the file holds under a key: its text, or nothing.
Entry(text, key) == IF key \in DictKeys(text) THEN Present(DictGet(text, key)) ELSE Absent

\* C38: a step of a get, set or delete call leaves what the file holds
\* under every key but the call's own as it is; no step of a get changes
\* the file; and a delete of a key the file does not hold returns after the
\* read with the file as it was.
C38_StoreFrame ==
    [][\A c \in StoreClients :
           client'[c] # client[c] =>
               LET r == client[c]
               IN  /\ \A key \in FileKeySet \ {r.key} : Entry(file', key) = Entry(file, key)
                   /\ r.op = "get" => file' = file
                   /\ (r.op = "delete" /\ r.pc = "read" /\ r.key \notin DictKeys(file)) =>
                          /\ file' = file
                          /\ client'[c].pc = "idle"
                   /\ file' # file => r.pc = "write"
      ]_vars

\* Both keys are stored; a set of one key has returned, and a delete of a
\* key has returned while that key is not in the file.
C38_Witness ==
    /\ client["c1"].pc = "idle"
    /\ client["c1"].op = "set"
    /\ client["c2"].pc = "idle"
    /\ client["c2"].op = "delete"
    /\ client["c2"].key # client["c1"].key
    /\ client["c1"].key \in DictKeys(file)
    /\ client["c2"].key \notin DictKeys(file)
    /\ hist[client["c2"].key] = Absent

====
